---- MODULE Spec2Model ----
(***************************************************************************)
(* Orchestration core of the azurejay conversational-agent backend: the    *)
(* LangGraph workflows of the repository, their routing functions, the     *)
(* reflection retry loop, the swarm handoff tools and the memory store     *)
(* writes of the extractor nodes.                                          *)
(*                                                                         *)
(* One run of one graph is one behaviour: `graph` says which workflow of   *)
(* the repository is being invoked.                                        *)
(*   "reflect"  src/teste/openevals-main.py   (fan-out + reflection loop)  *)
(*   "tutor"    src/src/agent/graph.py        (production tutor graph)     *)
(*   "agent"    src/src/agent/agent_graph.py  (profile-only agent graph)   *)
(*   "swarm"    src/teste/swarm/*.py          (Correction <-> Profile)     *)
(*   "route"    the routing functions alone, applied to one message        *)
(*   "service"  src/src/agent/service.py      (search + memory graph)      *)
(*   "responder" src/teste/supervisor/responder.py (update tasks)          *)
(*   "conversation" src/src/conversations/service.py (first message)       *)
(*   "server"   the HTTP handlers on the event loop                        *)
(*   "supervisor" src/teste/supervisor/supervisor.py (specialist, responder) *)
(*   "supervisor_raw" src/teste/supervisor/supervisor-raw.py (validator loop) *)
(*   "turns"    two turns of one owner that update the same memory       *)
(***************************************************************************)
EXTENDS Integers, Sequences, FiniteSets, TLC

\* ------------------------------------------------------------------ bounds
\* Primary-node (model call) steps explored per run.
MaxTutorSteps == 5
\* Tool calls per assistant message in the routing-function inputs.
MaxCalls == 2

\* ------------------------------------------------------- program constants
MAX_CORRECTION_RETRIES == 3

END == "__end__"
\* An exception that propagates out of a node or routing function.
RAISE == "__raise__"
\* A dict key that is not present (dict.get gives None, dict[...] raises KeyError).
Absent == "<absent>"

Users == {"u1", "u2"}

\* None, where the code holds a message or a response.
NoResponse == [type |-> "none"]

\* --------------------------------------------------------------- messages
\* A tool call of an assistant message: {"name", "args", "id"}.  has_args says
\* whether the "args" key exists, update_type is args["update_type"] or Absent,
\* arg stands for the remaining arguments (the handoff reason, the tool payload).
ToolCall(name, has_args, update_type, arg) ==
    [name |-> name, has_args |-> has_args, update_type |-> update_type,
     arg |-> arg, id |-> 0]

\* The tool calls get their ids when the message is created.
WithIds(calls, msgid) ==
    [i \in 1..Len(calls) |-> [calls[i] EXCEPT !.id = 10 * msgid + i]]

\* A content is the tuple of the pieces its format string puts together: the
\* empty string is <<>>.
Message(id, type, content, name, tool_calls, tool_call_id) ==
    [id |-> id, type |-> type, content |-> content, name |-> name,
     tool_calls |-> tool_calls, tool_call_id |-> tool_call_id]

HumanMessage(id, content) == Message(id, "human", content, "", <<>>, 0)
AIMessage(id, content, calls) == Message(id, "ai", content, "", WithIds(calls, id), 0)
ToolMessage(id, content, name, tool_call_id) ==
    Message(id, "tool", content, name, <<>>, tool_call_id)

Last(s) == s[Len(s)]

\* Position of the message with this id in a list, 0 when there is none.
IndexOfId(msgs, id) ==
    IF \E i \in 1..Len(msgs) : msgs[i].id = id
    THEN CHOOSE i \in 1..Len(msgs) : msgs[i].id = id
    ELSE 0

\* The reducer of the `messages` channel (add_messages): a message without an
\* id (0) gets a new one; a message of the update whose id is already in the
\* list replaces that message in place, any other is appended.
RECURSIVE AddMessages(_, _)
AddMessages(left, right) ==
    IF right = <<>> THEN left
    ELSE LET m == IF Head(right).id = 0
                  THEN [Head(right) EXCEPT !.id = Len(left) + 1]
                  ELSE Head(right)
             i == IndexOfId(left, m.id)
         IN  AddMessages(IF i = 0 THEN Append(left, m) ELSE [left EXCEPT ![i] = m],
                         Tail(right))

\* The id a node's new message gets: ids are never reused within a run.
NewId(msgs) == Len(msgs) + 1

\* ------------------------------------------------------------ memory store
Kinds == {"profile", "topic", "grammar", "web_search", "memory", "corrections"}
Namespaces == Kinds \X Users

EmptyStore == [ns \in Namespaces |-> <<>>]

StoreSearch(st, ns) == st[ns]

\* put(namespace, key, value): replaces the record with this key, else appends.
StorePut(st, ns, key, value) ==
    LET items == st[ns]
        rec == [key |-> key, value |-> value]
    IN  IF \E i \in 1..Len(items) : items[i].key = key
        THEN [st EXCEPT ![ns] =
                [i \in 1..Len(items) |-> IF items[i].key = key THEN rec ELSE items[i]]]
        ELSE [st EXCEPT ![ns] = Append(items, rec)]

\* ------------------------------------------------------- routing functions
route_message_Mutant(message) ==
    IF message.tool_calls = <<>> THEN END
    ELSE LET tool_call == message.tool_calls[1] IN
         IF ~tool_call.has_args THEN END
         ELSE LET update_type == tool_call.update_type IN
              CASE update_type \in {"profile", "user"} -> "update_profile"
                [] update_type = "topic"      -> "update_topic"
                [] update_type = "grammar"    -> "update_grammar"
                [] update_type = "web_search" -> "web_search_api"
                [] OTHER                      -> END

\* graph.py route_message: the first tool call's update_type, by exact match.
\* Everything inside the try block that raises ends in `return END`.
route_message(message) ==
    IF message.tool_calls = <<>> THEN END
    ELSE LET tool_call == message.tool_calls[1] IN
         IF ~tool_call.has_args THEN END
         ELSE LET update_type == tool_call.update_type IN
              CASE update_type = "profile"    -> "update_profile"
                [] update_type = "topic"      -> "update_topic"
                [] update_type = "grammar"    -> "update_grammar"
                [] update_type = "web_search" -> "web_search_api"
                [] OTHER                      -> END

route_action_Mutant(message) ==
    IF Len(message.tool_calls) = 0 THEN "update_profile"
    ELSE LET tool_call == message.tool_calls[1] IN
         IF ~tool_call.has_args \/ tool_call.update_type = Absent THEN RAISE
         ELSE IF tool_call.update_type = "profile" THEN "update_profile"
         ELSE END

\* agent_graph.py route_action: tool_call['args']['update_type'] is a plain
\* subscript, so a missing key is a KeyError that nothing catches.
route_action(message) ==
    IF Len(message.tool_calls) = 0 THEN END
    ELSE LET tool_call == message.tool_calls[1] IN
         IF ~tool_call.has_args \/ tool_call.update_type = Absent THEN RAISE
         ELSE IF tool_call.update_type = "profile" THEN "update_profile"
         ELSE END

\* The loop of the swarm route_message functions: every tool call is looked at
\* (there is no break); `name == 'UpdateMemory' and args['update_type'] == t`
\* subscripts args only when the name matches.
SwarmScanRaises(calls) ==
    \E i \in 1..Len(calls) :
        /\ calls[i].name = "UpdateMemory"
        /\ (~calls[i].has_args \/ calls[i].update_type = Absent)

HasUpdate(calls, update_type) ==
    \E i \in 1..Len(calls) :
        calls[i].name = "UpdateMemory" /\ calls[i].update_type = update_type

HasTransfer(calls, update_type, transfer) ==
    \E i \in 1..Len(calls) :
        /\ ~(calls[i].name = "UpdateMemory" /\ calls[i].update_type = update_type)
        /\ calls[i].name = transfer

correction_route_message_Mutant(message) ==
    IF Len(message.tool_calls) = 0 THEN END
    ELSE IF SwarmScanRaises(message.tool_calls) THEN RAISE
    ELSE IF HasTransfer(message.tool_calls, "corrections", "transfer_to_profile")
         THEN "tools"
    ELSE IF HasUpdate(message.tool_calls, "corrections") THEN "update_corrections"
    ELSE END

\* swarm/correction.py route_message.
correction_route_message(message) ==
    IF Len(message.tool_calls) = 0 THEN END
    ELSE IF SwarmScanRaises(message.tool_calls) THEN RAISE
    ELSE IF HasUpdate(message.tool_calls, "corrections") THEN "update_corrections"
    ELSE IF HasTransfer(message.tool_calls, "corrections", "transfer_to_profile")
         THEN "tools"
    ELSE END

\* swarm/profile.py route_message.
profile_route_message(message) ==
    IF Len(message.tool_calls) = 0 THEN END
    ELSE IF SwarmScanRaises(message.tool_calls) THEN RAISE
    ELSE IF HasUpdate(message.tool_calls, "profile") THEN "update_memories"
    ELSE IF HasTransfer(message.tool_calls, "profile", "transfer_to_correction_agent")
         THEN "tools"
    ELSE END

\* openevals-main.py route_tools: the nodes of every tool named in the message,
\* in the order profile, topic, grammar; "reflect" when there is none.
route_tools(msgs) ==
    IF msgs = <<>> \/ Last(msgs).tool_calls = <<>> THEN <<"reflect">>
    ELSE LET tool_names == {Last(msgs).tool_calls[i].name :
                               i \in 1..Len(Last(msgs).tool_calls)}
             routes == (IF "profile_tool" \in tool_names THEN <<"profile">> ELSE <<>>)
                    \o (IF "topic_tool" \in tool_names THEN <<"topic">> ELSE <<>>)
                    \o (IF "grammar_tool" \in tool_names THEN <<"grammar">> ELSE <<>>)
         IN  IF routes = <<>> THEN <<"reflect">> ELSE routes

\* openevals-main.py after_reflect.
after_reflect(msgs) ==
    IF msgs # <<>> /\ Last(msgs).type = "human" THEN "tutor" ELSE END

\* ------------------------------------------------------------------ state
VARIABLES
    graph,                  \* which workflow this run invokes
    user_id,                \* config["configurable"]["user_id"]
    node,                   \* the node the executor runs next, END when finished
    raised,                 \* an exception left the graph: the run is aborted
    messages,               \* state["messages"] of the running (sub)graph
    store,                  \* the long-term memory store
    next_uuid,              \* stands for the next value of uuid.uuid4()
    step_count,             \* primary-node steps taken (TutorState.step_count)
    original_message,       \* TutorState.original_message
    attempted_corrections,  \* TutorState.attempted_corrections
    judge,                  \* the evaluator of this run: "negative" or "free"
    pending,                \* fan-out nodes of the current step still to run
    writes,                 \* the message deltas of the fan-out nodes that ran
    reflect_loops,          \* times the edge reflect -> tutor was taken
    active_agent,           \* SwarmState.active_agent
    parent_messages,        \* SwarmState.messages of the parent swarm graph
    handoffs,               \* handoffs completed in this run
    routed,                 \* what each routing function returned ("route" runs)
    faults,                 \* <<capability, tool call id>> of what failed in this run
    dispatch_store,         \* the store when the concurrent updates were dispatched
    context,                \* EnhancedState.context
    final_response,         \* final_response of create_new_conversation
    db_rows,                \* the conversation rows committed by the caller
    returned,               \* what the invocation gave its caller
    requests,               \* the HTTP requests being served
    loop_owner,             \* the request whose coroutine holds the event loop
    tasks,                  \* the update tasks of the responder workflow
    redis_conversations,    \* the Redis keys conversation:{user_id}:* that hold data
    system_msg              \* what the primary node last formatted into its prompt

vars == <<graph, user_id, node, raised, messages, store, next_uuid, step_count,
          original_message, attempted_corrections, judge, pending, writes,
          reflect_loops, active_agent, parent_messages, handoffs, routed,
          faults, dispatch_store, context, final_response, db_rows, returned,
          requests, loop_owner, tasks, redis_conversations, system_msg>>

reflectVars == <<original_message, attempted_corrections, pending, writes,
                 reflect_loops>>
swarmVars == <<active_agent, parent_messages, handoffs>>
historyVars == <<faults, dispatch_store>>
promptVars == <<redis_conversations, system_msg>>
callerVars == <<context, final_response, db_rows, returned, requests, loop_owner,
                tasks>>

Unrouted == [route_message |-> "", route_action |-> "", correction |-> "",
             profile |-> "", route_tools |-> <<>>]

\* ------------------------------------------------- the routing functions alone
\* The tool calls a model can put in one assistant message.
UpdateTypes == {Absent, "profile", "topic", "grammar", "web_search", "corrections",
                "user"}
RouteCalls ==
    {ToolCall("UpdateMemory", TRUE, t, "") : t \in UpdateTypes}
    \cup {ToolCall("UpdateMemory", FALSE, Absent, "")}
    \cup {ToolCall(n, TRUE, Absent, "r") :
            n \in {"transfer_to_profile", "transfer_to_correction_agent",
                   "profile_tool", "topic_tool", "grammar_tool"}}

SeqsUpTo(S, n) == UNION {[1..k -> S] : k \in 0..n}

RouteInputs == {AIMessage(1, <<"text">>, calls) : calls \in SeqsUpTo(RouteCalls, MaxCalls)}

\* Every routing function of the repository applied to the latest message.
ApplyRouting ==
    /\ graph = "route"
    /\ node = "route"
    /\ routed' = [route_message |-> route_message(Last(messages)),
                  route_action  |-> route_action(Last(messages)),
                  correction    |-> correction_route_message(Last(messages)),
                  profile       |-> profile_route_message(Last(messages)),
                  route_tools   |-> route_tools(messages)]
    /\ node' = END
    /\ UNCHANGED <<graph, user_id, raised, messages, store, next_uuid, step_count,
                   judge, promptVars, reflectVars, swarmVars, historyVars,
                   callerVars>>

\* ------------------------------------- openevals-main.py: the reflection graph
\* What the tool-bound model may answer in one call: text or no text, and the
\* tools it calls.
ReflectResponses ==
    {[content |-> <<"text">>, calls |-> <<>>],
     [content |-> <<>>, calls |-> <<>>],
     [content |-> <<>>, calls |-> <<ToolCall("grammar_tool", TRUE, Absent, "g1")>>],
     [content |-> <<"text">>,
      calls |-> <<ToolCall("profile_tool", TRUE, Absent, "p1"),
                  ToolCall("topic_tool", TRUE, Absent, "t1")>>]}

FanOutNodes == {"profile", "topic", "grammar"}
NoWrites == [n \in FanOutNodes |-> <<>>]

store_original_message ==
    /\ graph = "reflect" /\ node = "store_original_message" /\ ~raised
    /\ IF messages # <<>> /\ Last(messages).type = "human"
       THEN /\ original_message' = Last(messages).content
            /\ attempted_corrections' = <<>>
       ELSE UNCHANGED <<original_message, attempted_corrections>>
    /\ node' = "tutor"
    /\ UNCHANGED <<graph, user_id, raised, messages, store, next_uuid, step_count,
                   judge, promptVars, pending, writes, reflect_loops, swarmVars, routed, historyVars,
                   callerVars>>

\* The tutor node, then the conditional edge route_tools.
call_model ==
    /\ graph = "reflect" /\ node = "tutor" /\ ~raised
    /\ step_count < MaxTutorSteps
    /\ \E r \in ReflectResponses :
         LET response == AIMessage(NewId(messages), r.content, r.calls)
             routes == route_tools(AddMessages(messages, <<response>>))
         IN  /\ step_count' = step_count + 1
             /\ attempted_corrections' =
                    IF /\ response.content # <<>>
                       /\ Len(messages) > 0
                       /\ Last(messages).type = "human"
                    THEN Append(attempted_corrections, response.content)
                    ELSE attempted_corrections
             /\ messages' = AddMessages(messages, <<response>>)
             /\ IF routes = <<"reflect">>
                THEN node' = "reflect" /\ pending' = {}
                ELSE node' = "tools"
                     /\ pending' = {routes[i] : i \in 1..Len(routes)}
    /\ dispatch_store' = store
    /\ UNCHANGED <<graph, user_id, raised, store, next_uuid, original_message,
                   judge, promptVars, writes, reflect_loops, swarmVars, routed, faults,
                   callerVars>>

\* The loop of the three tool nodes: one put under a new uuid and one tool
\* message per matching tool call of the last message.
RECURSIVE PutAll(_, _, _, _, _)
PutAll(st, ns, calls, uuid, stamped) ==
    IF calls = <<>> THEN st
    ELSE PutAll(StorePut(st, ns, uuid,
                         [data |-> Head(calls).arg,
                          timestamp |-> IF stamped THEN uuid ELSE 0]),
                ns, Tail(calls), uuid + 1, stamped)

\* A node that appends its tool messages as soon as it has run.
FanOutNode_Mutant(name, tool, kind, result, stamped) ==
    /\ graph = "reflect" /\ node = "tools" /\ ~raised
    /\ name \in pending
    /\ LET all == Last(messages).tool_calls
           calls == SelectSeq(all, LAMBDA c : c.name = tool)
           tool_outputs == [i \in 1..Len(calls) |->
                               ToolMessage(0, result, tool, calls[i].id)]
           w == [writes EXCEPT ![name] = tool_outputs]
           delta == w["profile"] \o w["topic"] \o w["grammar"]
       IN  /\ store' = PutAll(store, <<kind, user_id>>, calls, next_uuid, stamped)
           /\ next_uuid' = next_uuid + Len(calls)
           /\ pending' = pending \ {name}
           /\ messages' = AddMessages(messages, tool_outputs)
           /\ IF pending' = {}
              THEN writes' = NoWrites /\ node' = "tutor"
              ELSE writes' = w /\ UNCHANGED node
    /\ UNCHANGED <<graph, user_id, raised, step_count, original_message,
                   attempted_corrections, judge, promptVars, reflect_loops, swarmVars, routed, historyVars,
                   callerVars>>

\* The step's deltas enter the message list when its last node has finished;
\* "profile", "topic" and "grammar" all lead back to the tutor.
FanOutNode(name, tool, kind, result, stamped) ==
    /\ graph = "reflect" /\ node = "tools" /\ ~raised
    /\ name \in pending
    /\ LET all == Last(messages).tool_calls
           calls == SelectSeq(all, LAMBDA c : c.name = tool)
           tool_outputs == [i \in 1..Len(calls) |->
                               ToolMessage(0, result, tool, calls[i].id)]
           w == [writes EXCEPT ![name] = tool_outputs]
           delta == w["profile"] \o w["topic"] \o w["grammar"]
       IN  /\ store' = PutAll(store, <<kind, user_id>>, calls, next_uuid, stamped)
           /\ next_uuid' = next_uuid + Len(calls)
           /\ pending' = pending \ {name}
           /\ IF pending' = {}
              THEN /\ messages' = AddMessages(messages, delta)
                   /\ writes' = NoWrites
                   /\ node' = "tutor"
              ELSE /\ writes' = w
                   /\ UNCHANGED <<messages, node>>
    /\ UNCHANGED <<graph, user_id, raised, step_count, original_message,
                   attempted_corrections, judge, promptVars, reflect_loops, swarmVars, routed, historyVars,
                   callerVars>>

Reflect_update_profile ==
    FanOutNode("profile", "profile_tool", "profile",
               <<"Updated user profile information">>, FALSE)
Reflect_update_topic ==
    FanOutNode("topic", "topic_tool", "topic", <<"Recorded topic">>, TRUE)
Reflect_update_grammar ==
    FanOutNode("grammar", "grammar_tool", "grammar",
               <<"Recorded grammar correction">>, TRUE)

HasAI(msgs) == \E i \in 1..Len(msgs) : msgs[i].type = "ai"

\* A reflect that asks again whatever the evaluator says.
NeedsRetry_Mutant(score, attempted) ==
    Len(attempted) < MAX_CORRECTION_RETRIES

\* Whether reflect asks for another attempt, given the evaluator's score.
NeedsRetry(score, attempted) ==
    ~score /\ Len(attempted) < MAX_CORRECTION_RETRIES

\* The reflect node, then the conditional edge after_reflect.  The evaluator
\* is asked only when there is an assistant message and an original message; a
\* negative score is kept as <<"evaluation", pass>>.
reflect ==
    /\ graph = "reflect" /\ node = "reflect" /\ ~raised
    /\ \E score \in (IF judge = "negative" THEN {FALSE} ELSE BOOLEAN) :
         LET evaluated == HasAI(messages) /\ original_message # <<>>
             delta == IF ~evaluated
                      THEN <<>>
                      ELSE IF NeedsRetry(score, attempted_corrections)
                           THEN <<HumanMessage(0, <<"review your previous correction">>
                                                  \o original_message)>>
                           ELSE <<>>
             after == AddMessages(messages, delta)
         IN  /\ messages' = after
             /\ node' = after_reflect(after)
             /\ reflect_loops' =
                    IF after_reflect(after) = "tutor" THEN reflect_loops + 1
                    ELSE reflect_loops
             /\ faults' = IF evaluated /\ ~score
                           THEN faults \cup {<<"evaluation", reflect_loops>>}
                           ELSE faults
    /\ UNCHANGED <<graph, user_id, raised, store, next_uuid, step_count,
                   original_message, attempted_corrections, judge, promptVars, pending, writes,
                   swarmVars, routed, dispatch_store, callerVars>>

ReflectNext ==
    \/ store_original_message
    \/ call_model
    \/ Reflect_update_profile
    \/ Reflect_update_topic
    \/ Reflect_update_grammar
    \/ reflect

\* --------------------------------------- graph.py: the production tutor graph
UpdateMemory(t) == ToolCall("UpdateMemory", TRUE, t, "")

\* What the model bound to UpdateMemory (parallel_tool_calls=True) may answer.
TutorResponses ==
    {[content |-> <<"text">>, calls |-> k] :
        k \in {<<>>,
               <<UpdateMemory("profile")>>,
               <<UpdateMemory("topic")>>,
               <<UpdateMemory("grammar")>>,
               <<UpdateMemory("web_search")>>,
               <<UpdateMemory("user")>>,
               <<UpdateMemory("grammar"), UpdateMemory("profile")>>}}

\* The primary node, then the conditional edge route_message.  The four
\* store.search calls are not guarded: what they raise leaves the graph.
ai_language_tutor ==
    /\ graph = "tutor" /\ node = "ai_language_tutor" /\ ~raised
    /\ step_count < MaxTutorSteps
    /\ \/ /\ raised' = TRUE
          /\ faults' = faults \cup {<<"memory_read", 0>>}
          /\ UNCHANGED <<messages, node>>
       \/ \E r \in TutorResponses :
            LET response == AIMessage(NewId(messages), r.content, r.calls)
            IN  /\ messages' = AddMessages(messages, <<response>>)
                /\ node' = route_message(response)
                /\ UNCHANGED <<raised, faults>>
    /\ step_count' = step_count + 1
    /\ UNCHANGED <<graph, user_id, store, next_uuid, judge, promptVars, reflectVars,
                   swarmVars, routed, dispatch_store, callerVars>>

\* What a Trustcall extractor gives back for the documents it was shown:
\* responses with their metadata, where json_doc_id is the key of the existing
\* document a response patches and is missing (0) for a new document.
ExtractorResults(existing_items) ==
    {<<[json_doc_id |-> 0, value |-> [data |-> "v1", timestamp |-> 0]]>>}
    \cup (IF existing_items = <<>> THEN {}
          ELSE {<<[json_doc_id |-> existing_items[1].key,
                   value |-> [data |-> "v2", timestamp |-> 0]]>>})

\* The schema of the one tool each extractor of graph.py is created with.
ToolName ==
    [update_profile |-> "Profile", update_topic |-> "Topic",
     update_grammar |-> "Grammar", web_search_api |-> "WebSearchKnowledge"]

\* The responses of an extractor created for one tool are documents of that
\* tool's schema.
ExtractorResultsOf(tool_name, existing_items) ==
    {[i \in 1..Len(result) |->
        [json_doc_id |-> result[i].json_doc_id,
         value |-> [schema |-> tool_name, data |-> result[i].value.data,
                    timestamp |-> result[i].value.timestamp]]] :
        result \in ExtractorResults(existing_items)}

\* A save that puts a new document under the id of the namespace's first record.
RECURSIVE SaveMemories_Mutant(_, _, _, _)
SaveMemories_Mutant(st, ns, result, uuid) ==
    IF result = <<>> THEN st
    ELSE LET r == Head(result)
             key == IF r.json_doc_id # 0 THEN r.json_doc_id
                    ELSE IF st[ns] # <<>> THEN st[ns][1].key ELSE uuid
         IN  SaveMemories_Mutant(StorePut(st, ns, key, r.value), ns, Tail(result),
                                 uuid + 1)

\* for r, rmeta in zip(...): store.put(namespace, rmeta.get("json_doc_id", uuid4()), r)
RECURSIVE SaveMemories(_, _, _, _)
SaveMemories(st, ns, result, uuid) ==
    IF result = <<>> THEN st
    ELSE LET r == Head(result)
             key == IF r.json_doc_id # 0 THEN r.json_doc_id ELSE uuid
         IN  SaveMemories(StorePut(st, ns, key, r.value), ns, Tail(result), uuid + 1)

\* tool_calls[0]['id'] if tool_calls and len(tool_calls) > 0 else "unknown"
FirstToolCallId(msgs) ==
    IF Last(msgs).tool_calls # <<>> THEN Last(msgs).tool_calls[1].id ELSE 0

TutorEdges_Mutant ==
    [update_topic |-> "ai_language_tutor", update_profile |-> "ai_language_tutor",
     update_grammar |-> "ai_language_tutor", web_search_api |-> END]

\* builder.add_edge(extractor, "ai_language_tutor") of setup_and_run_graph.
TutorEdges ==
    [update_topic |-> "ai_language_tutor", update_profile |-> "ai_language_tutor",
     update_grammar |-> "ai_language_tutor", web_search_api |-> "ai_language_tutor"]

\* update_profile, update_topic and update_grammar: search, extract, put, answer
\* the first tool call.  Nothing catches what the extractor raises.
MemoryExtractor(name, kind, content, may_patch) ==
    /\ graph = "tutor" /\ node = name /\ ~raised
    /\ LET namespace == <<kind, user_id>>
           existing_items == StoreSearch(store, namespace)
       IN  \/ /\ raised' = TRUE
              /\ faults' = faults \cup {<<"extraction", FirstToolCallId(messages)>>}
              /\ UNCHANGED <<node, messages, store, next_uuid>>
           \/ \E result \in ExtractorResultsOf(ToolName[name],
                                  IF may_patch THEN existing_items ELSE <<>>) :
                /\ UNCHANGED faults
                /\ store' = SaveMemories(store, namespace, result, next_uuid)
                /\ next_uuid' = next_uuid + Len(result)
                /\ messages' = AddMessages(messages,
                       <<ToolMessage(0, content, "", FirstToolCallId(messages))>>)
                /\ node' = TutorEdges[name]
                /\ UNCHANGED raised
    /\ UNCHANGED <<graph, user_id, step_count, judge, promptVars, reflectVars, swarmVars, routed,
                   dispatch_store, callerVars>>

update_profile ==
    MemoryExtractor("update_profile", "profile", <<"Updated profile information">>, TRUE)

\* An update_topic that takes the namespace of update_profile.
update_topic_Mutant ==
    MemoryExtractor("update_topic", "profile", <<"Topic updated">>, TRUE)

update_topic ==
    MemoryExtractor("update_topic", "topic", <<"Topic updated">>, TRUE)
update_grammar ==
    MemoryExtractor("update_grammar", "grammar", <<"Grammar updated">>, TRUE)

\* web_search_api: the searches, the extractor and the put are inside one try;
\* the except branch answers with the error text.
web_search_api ==
    /\ graph = "tutor" /\ node = "web_search_api" /\ ~raised
    /\ LET namespace == <<"web_search", user_id>>
       IN  \/ /\ messages' = AddMessages(messages,
                     <<ToolMessage(0, <<"Error during web search: ", "e">>, "",
                                   FirstToolCallId(messages))>>)
              /\ UNCHANGED <<store, next_uuid>>
           \/ \E result \in ExtractorResultsOf(ToolName["web_search_api"], <<>>) :
                /\ store' = SaveMemories(store, namespace, result, next_uuid)
                /\ next_uuid' = next_uuid + Len(result)
                /\ messages' = AddMessages(messages,
                       <<ToolMessage(0, <<"Web search completed for: ", "question">>, "",
                                     FirstToolCallId(messages))>>)
    /\ node' = TutorEdges["web_search_api"]
    /\ UNCHANGED <<graph, user_id, raised, step_count, judge, promptVars, reflectVars, swarmVars,
                   routed, historyVars,
                   callerVars>>

TutorNext ==
    \/ ai_language_tutor
    \/ update_profile
    \/ update_topic
    \/ update_grammar
    \/ web_search_api

\* ------------------------------------- agent_graph.py: the profile-only graph
AgentResponses ==
    {[content |-> <<"text">>, calls |-> k] :
        k \in {<<>>,
               <<UpdateMemory("profile")>>,
               <<UpdateMemory("topic")>>,
               <<UpdateMemory(Absent)>>}}

\* Conversations of one user that Redis holds in the runs explored.
MaxConversations == 6

\* conversation_keys[:5]
RecentLimit == 5

\* The sets of keys conversation:{user_id}:* a run starts with; a key is
\* modelled by its rank in the order of the key strings.
StoredConversationKeys == {1..k : k \in 0..MaxConversations}

\* conversation_keys.sort(reverse=True)
RECURSIVE SortReverse(_)
SortReverse(keys) ==
    IF keys = {} THEN <<>>
    ELSE LET top == CHOOSE k \in keys : \A other \in keys : other <= k
         IN  <<top>> \o SortReverse(keys \ {top})

\* The second try block of conversational_agent: the conversations of the five
\* first keys, joined.  `import json` stands inside `if profile_data:`, which
\* makes json a local name of the function that is bound only when a profile
\* was read: without one json.loads raises UnboundLocalError, the except
\* branch logs it and recent_conversations stays "".
RecentConversations(json_bound, conversation_keys) ==
    LET sorted == SortReverse(conversation_keys)
        recent_keys == SubSeq(sorted, 1, IF Len(sorted) < RecentLimit THEN Len(sorted)
                                         ELSE RecentLimit)
    IN  IF recent_keys # <<>> /\ ~json_bound THEN <<>> ELSE recent_keys

\* MODEL_SYSTEM_MESSAGE.format(user_profile=..., recent_conversations=...): an
\* empty profile is formatted as "No profile information yet." and an empty
\* recent_conversations as "No previous conversations."
SystemMessage(user_profile, recent_conversations) ==
    [user_profile |-> user_profile, recent_conversations |-> recent_conversations]

\* The primary node, then the conditional edge route_action.  What route_action
\* raises fails the step: nothing of it is written.  The two Redis reads are
\* each inside a try whose except branch logs and goes on.
conversational_agent ==
    /\ graph = "agent" /\ node = "conversational_agent" /\ ~raised
    /\ step_count < MaxTutorSteps
    /\ \E profile_read, conversations_read \in BOOLEAN :
         LET profile_data == IF profile_read
                             THEN StoreSearch(store, <<"profile", user_id>>) ELSE <<>>
             recent_conversations ==
                 IF conversations_read
                 THEN RecentConversations(profile_data # <<>>, redis_conversations)
                 ELSE <<>>
         IN  /\ faults' = faults
                    \cup (IF profile_read THEN {} ELSE {<<"memory_read", 0>>})
                    \cup (IF conversations_read THEN {}
                          ELSE {<<"conversations_read", 0>>})
             /\ system_msg' = SystemMessage(profile_data, recent_conversations)
    /\ \E r \in AgentResponses :
         LET response == AIMessage(NewId(messages), r.content, r.calls)
         IN  IF route_action(response) = RAISE
             THEN raised' = TRUE /\ UNCHANGED <<node, messages>>
             ELSE /\ messages' = AddMessages(messages, <<response>>)
                  /\ node' = route_action(response)
                  /\ UNCHANGED raised
    /\ step_count' = step_count + 1
    /\ UNCHANGED <<graph, user_id, store, next_uuid, judge, redis_conversations,
                   reflectVars, swarmVars, routed, dispatch_store, callerVars>>

\* builder.add_edge("update_profile", "conversational_agent") of create_agent_graph.
AgentEdges == [update_profile |-> "conversational_agent"]

\* agent_graph.py update_profile: the extraction and the Redis SET of the one
\* key profile:{user_id} are inside a try; both branches answer the tool call.
Agent_update_profile ==
    /\ graph = "agent" /\ node = "update_profile" /\ ~raised
    /\ \/ /\ store' = StorePut(store, <<"profile", user_id>>, 0,
                               [data |-> "v1", timestamp |-> 0])
          /\ messages' = AddMessages(messages,
                 <<ToolMessage(0, <<"Updated user profile">>, "",
                               Last(messages).tool_calls[1].id)>>)
          /\ UNCHANGED faults
       \/ /\ faults' = faults \cup {<<"extraction", Last(messages).tool_calls[1].id>>}
          /\ messages' = AddMessages(messages,
                 <<ToolMessage(0, <<"Error updating profile: ", "e">>, "",
                               Last(messages).tool_calls[1].id)>>)
          /\ UNCHANGED store
    /\ node' = AgentEdges["update_profile"]
    /\ UNCHANGED <<graph, user_id, raised, next_uuid, step_count, judge, promptVars, reflectVars,
                   swarmVars, routed, dispatch_store, callerVars>>

AgentNext ==
    \/ conversational_agent
    \/ Agent_update_profile

\* ------------------------------------------ swarm: Correction <-> Profile
\* custom_handoff_tools.py: the tool answers its own call with a marker and
\* sends the parent graph to the other agent with the whole message list.
handoff_to_profile_Mutant(reason, state_messages, tool_call_id) ==
    LET tool_message == ToolMessage(0, <<"Successfully transferred to ", "Profile",
                                       " - ", reason>>,
                                    "transfer_to_profile", tool_call_id)
    IN  [goto |-> "Profile",
         update |-> [messages |-> <<tool_message>>,
                     active_agent |-> "Profile"]]

handoff_to_profile(reason, state_messages, tool_call_id) ==
    LET tool_message == ToolMessage(0, <<"Successfully transferred to ", "Profile",
                                       " - ", reason>>,
                                    "transfer_to_profile", tool_call_id)
    IN  [goto |-> "Profile",
         update |-> [messages |-> state_messages \o <<tool_message>>,
                     active_agent |-> "Profile"]]

handoff_to_correction(reason, state_messages, tool_call_id) ==
    LET tool_message == ToolMessage(0, <<"Successfully transferred to ", "Correction",
                                       " - ", reason>>,
                                    "transfer_to_correction_agent", tool_call_id)
    IN  [goto |-> "Correction",
         update |-> [messages |-> state_messages \o <<tool_message>>,
                     active_agent |-> "Correction"]]

Transfer(name) == ToolCall(name, TRUE, Absent, "reason")

CorrectionResponses ==
    {[content |-> <<"text">>, calls |-> k] :
        k \in {<<>>,
               <<UpdateMemory("corrections")>>,
               <<Transfer("transfer_to_profile")>>,
               <<UpdateMemory("corrections"), Transfer("transfer_to_profile")>>,
               <<UpdateMemory(Absent)>>}}

ProfileResponses ==
    {[content |-> <<"text">>, calls |-> k] :
        k \in {<<>>,
               <<UpdateMemory("profile")>>,
               <<Transfer("transfer_to_correction_agent")>>,
               <<Transfer("transfer_to_correction_agent"), UpdateMemory("profile")>>}}

\* An agent node of a sub-graph, then its conditional edge.  A sub-graph that
\* reaches END gives its messages back to the swarm graph, which ends too.
SwarmRoute(agent, message) ==
    IF agent = "Correction" THEN correction_route_message(message)
    ELSE profile_route_message(message)

SwarmAgent(agent, agent_node, responses) ==
    /\ graph = "swarm" /\ active_agent = agent /\ node = agent_node /\ ~raised
    /\ step_count < MaxTutorSteps
    /\ \E r \in responses :
         LET response == AIMessage(NewId(messages), r.content, r.calls)
             after == AddMessages(messages, <<response>>)
         IN  IF SwarmRoute(agent, response) = RAISE
             THEN raised' = TRUE /\ UNCHANGED <<node, messages, parent_messages>>
             ELSE /\ messages' = after
                  /\ node' = SwarmRoute(agent, response)
                  /\ parent_messages' = IF SwarmRoute(agent, response) = END
                                        THEN AddMessages(parent_messages, after)
                                        ELSE parent_messages
                  /\ UNCHANGED raised
    /\ step_count' = step_count + 1
    /\ UNCHANGED <<graph, user_id, store, next_uuid, judge, promptVars, reflectVars,
                   active_agent, handoffs, routed, historyVars,
                   callerVars>>

corrections_agent ==
    SwarmAgent("Correction", "corrections_agent", CorrectionResponses)
profile_agent ==
    SwarmAgent("Profile", "profile_agent", ProfileResponses)

\* The id of the first UpdateMemory call of this update type, 0 when none.
UpdateCallId(calls, update_type) ==
    IF HasUpdate(calls, update_type)
    THEN calls[CHOOSE i \in 1..Len(calls) :
                 /\ calls[i].name = "UpdateMemory"
                 /\ calls[i].update_type = update_type
                 /\ \A j \in 1..(i - 1) :
                      ~(calls[j].name = "UpdateMemory"
                        /\ calls[j].update_type = update_type)].id
    ELSE 0

\* update_corrections and update_memories: what the extractor raises is caught
\* and printed; the tool message is the same either way.
SwarmUpdate(agent, update_node, kind, update_type, content, agent_node) ==
    /\ graph = "swarm" /\ active_agent = agent /\ node = update_node /\ ~raised
    /\ LET namespace == <<kind, user_id>>
           id == UpdateCallId(Last(messages).tool_calls, update_type)
       IN  /\ \/ /\ faults' = faults \cup {<<"extraction", id>>}
                 /\ UNCHANGED <<store, next_uuid>>
              \/ \E result \in ExtractorResults(<<>>) :
                   /\ store' = SaveMemories(store, namespace, result, next_uuid)
                   /\ next_uuid' = next_uuid + Len(result)
                   /\ UNCHANGED faults
           /\ messages' = AddMessages(messages,
                  IF id # 0 THEN <<ToolMessage(0, content, "", id)>> ELSE <<>>)
    /\ node' = agent_node
    /\ UNCHANGED <<graph, user_id, raised, step_count, judge, promptVars, reflectVars, swarmVars,
                   routed, dispatch_store, callerVars>>

update_corrections ==
    SwarmUpdate("Correction", "update_corrections", "corrections", "corrections",
                <<"Grammar correction saved">>, "corrections_agent")
update_memories ==
    SwarmUpdate("Profile", "update_memories", "memory", "profile",
                <<"Profile updated">>, "profile_agent")

FirstCallNamed(calls, name) ==
    calls[CHOOSE i \in 1..Len(calls) :
            calls[i].name = name /\ \A j \in 1..(i - 1) : calls[j].name # name]

\* The ToolNode of a sub-graph runs the handoff tool of the last message; the
\* Command goes to the parent graph, whose `messages` channel takes the update
\* and which then runs the other agent on its own state.
SwarmHandoff(agent, reason, state_messages, tool_call_id) ==
    IF agent = "Correction"
    THEN handoff_to_profile(reason, state_messages, tool_call_id)
    ELSE handoff_to_correction(reason, state_messages, tool_call_id)

SwarmTools(agent, transfer, target_node) ==
    /\ graph = "swarm" /\ active_agent = agent /\ node = "tools" /\ ~raised
    /\ \E i \in 1..Len(Last(messages).tool_calls) :
         Last(messages).tool_calls[i].name = transfer
    /\ LET call == FirstCallNamed(Last(messages).tool_calls, transfer)
           command == SwarmHandoff(agent, call.arg, messages, call.id)
           merged == AddMessages(parent_messages, command.update.messages)
       IN  /\ parent_messages' = merged
           /\ active_agent' = command.update.active_agent
           /\ messages' = merged
    /\ node' = target_node
    /\ handoffs' = handoffs + 1
    /\ UNCHANGED <<graph, user_id, raised, store, next_uuid, step_count, judge, promptVars,
                   reflectVars, routed, historyVars,
                   callerVars>>

Correction_tools ==
    SwarmTools("Correction", "transfer_to_profile", "profile_agent")
Profile_tools ==
    SwarmTools("Profile", "transfer_to_correction_agent", "corrections_agent")

SwarmNext ==
    \/ corrections_agent
    \/ update_corrections
    \/ Correction_tools
    \/ profile_agent
    \/ update_memories
    \/ Profile_tools

\* ------------------------------ agent/service.py: the memory-and-search graph
\* str.lower() on the pieces a user can type in this model.
Lower(piece) ==
    CASE piece = "What is" -> "what is"
      [] piece = "NEWS"    -> "news"
      [] OTHER             -> piece

SearchIndicators ==
    {"what is", "who is", "when did", "where is", "how does", "latest", "recent",
     "news", "information about", "tell me about", "search for",
     "find information", "can you find", "look up", "research"}

\* service.py route_message, the conditional edge from START.
service_route_message(msgs) ==
    IF Last(msgs).type # "human" THEN "call_model"
    ELSE IF \E i \in 1..Len(Last(msgs).content) :
                Lower(Last(msgs).content[i]) \in SearchIndicators
         THEN "search_web"
         ELSE "call_model"

\* The one Redis key agent:memory:{user_id} of a user.
MemoryKey(user) == <<"memory", user>>

\* A graph whose web search leads straight to the model call.
ServiceEdges_Mutant ==
    [search_web |-> "call_model", search_wikipedia |-> "call_model",
     call_model |-> "write_memory", write_memory |-> END]

ServiceEdges ==
    [search_web |-> "search_wikipedia", search_wikipedia |-> "call_model",
     call_model |-> "write_memory", write_memory |-> END]

\* A conditional edge that looks at the run's configuration besides the state.
Service_route_Mutant ==
    /\ graph = "service" /\ node = "START" /\ ~raised
    /\ node' = IF user_id = "u2" THEN "call_model"
               ELSE service_route_message(messages)
    /\ UNCHANGED <<graph, user_id, raised, messages, store, next_uuid, step_count,
                   judge, promptVars, reflectVars, swarmVars, routed, historyVars, callerVars>>

Service_route ==
    /\ graph = "service" /\ node = "START" /\ ~raised
    /\ node' = service_route_message(messages)
    /\ UNCHANGED <<graph, user_id, raised, messages, store, next_uuid, step_count,
                   judge, promptVars, reflectVars, swarmVars, routed, historyVars, callerVars>>

\* search_web: the Tavily call is not guarded.
search_web ==
    /\ graph = "service" /\ node = "search_web" /\ ~raised
    /\ \/ /\ raised' = TRUE
          /\ faults' = faults \cup {<<"web_search", 0>>}
          /\ UNCHANGED <<node, context>>
       \/ /\ context' = Append(context, "web documents")
          /\ node' = ServiceEdges["search_web"]
          /\ UNCHANGED <<raised, faults>>
    /\ UNCHANGED <<graph, user_id, messages, store, next_uuid, step_count, judge, promptVars,
                   reflectVars, swarmVars, routed, dispatch_store, final_response,
                   db_rows, returned, requests, loop_owner, tasks>>

\* search_wikipedia: what the loader raises becomes a context line.
search_wikipedia ==
    /\ graph = "service" /\ node = "search_wikipedia" /\ ~raised
    /\ \/ /\ context' = Append(context, "No relevant Wikipedia results found.")
          /\ faults' = faults \cup {<<"wikipedia", 0>>}
       \/ /\ context' = Append(context, "wikipedia documents")
          /\ UNCHANGED faults
    /\ node' = ServiceEdges["search_wikipedia"]
    /\ UNCHANGED <<graph, user_id, raised, messages, store, next_uuid, step_count,
                   judge, promptVars, reflectVars, swarmVars, routed, dispatch_store,
                   final_response, db_rows, returned, requests, loop_owner, tasks>>

\* A call_model that gives back {"messages": [response]} to a channel without
\* a reducer.
Service_call_model_Mutant ==
    /\ graph = "service" /\ node = "call_model" /\ ~raised
    /\ \/ /\ raised' = TRUE
          /\ \E c \in {"memory_read", "model"} : faults' = faults \cup {<<c, 0>>}
          /\ UNCHANGED <<node, messages>>
       \/ \E content \in {<<"text">>, <<>>} :
            /\ messages' = <<AIMessage(NewId(messages), content, <<>>)>>
            /\ node' = ServiceEdges["call_model"]
            /\ UNCHANGED <<raised, faults>>
    /\ step_count' = step_count + 1
    /\ UNCHANGED <<graph, user_id, store, next_uuid, judge, promptVars, reflectVars, swarmVars,
                   routed, dispatch_store, callerVars>>

\* call_model of service.py: redis_client.get and the model call are not
\* guarded; the node gives back state["messages"] + [response].
Service_call_model ==
    /\ graph = "service" /\ node = "call_model" /\ ~raised
    /\ \/ /\ raised' = TRUE
          /\ \E c \in {"memory_read", "model"} : faults' = faults \cup {<<c, 0>>}
          /\ UNCHANGED <<node, messages>>
       \/ \E content \in {<<"text">>, <<>>} :
            /\ messages' = messages \o <<AIMessage(NewId(messages), content, <<>>)>>
            /\ node' = ServiceEdges["call_model"]
            /\ UNCHANGED <<raised, faults>>
    /\ step_count' = step_count + 1
    /\ UNCHANGED <<graph, user_id, store, next_uuid, judge, promptVars, reflectVars, swarmVars,
                   routed, dispatch_store, callerVars>>

\* write_memory: the extractor is shown the stored profile and its first
\* response replaces it under the same key; nothing here is guarded.
write_memory ==
    /\ graph = "service" /\ node = "write_memory" /\ ~raised
    /\ \/ /\ raised' = TRUE
          /\ \E c \in {"memory_read", "extraction"} : faults' = faults \cup {<<c, 0>>}
          /\ UNCHANGED <<node, store>>
       \/ \E result \in ExtractorResults(<<>>) :
            /\ store' = StorePut(store, MemoryKey(user_id), 0, result[1].value)
            /\ node' = ServiceEdges["write_memory"]
            /\ UNCHANGED <<raised, faults>>
    /\ UNCHANGED <<graph, user_id, messages, next_uuid, step_count, judge, promptVars,
                   reflectVars, swarmVars, routed, dispatch_store, callerVars>>

\* process_message after graph.invoke: the service stores the user message and
\* the reply, and the controller stores both once more; an exception becomes
\* the controller's HTTP 500.
process_message ==
    /\ graph = "service" /\ returned = NoResponse
    /\ (raised \/ node = END)
    /\ IF raised
       THEN /\ returned' = [type |-> "error", status |-> 500]
            /\ UNCHANGED db_rows
       ELSE LET human == [role |-> "human", content |-> messages[1].content]
                ai == [role |-> "ai", content |-> Last(messages).content]
            IN  /\ db_rows' = db_rows \o <<human, ai, human, ai>>
                /\ returned' = [type |-> "response",
                                message |-> Last(messages).content]
    /\ UNCHANGED <<graph, user_id, node, raised, messages, store, next_uuid,
                   step_count, judge, promptVars, reflectVars, swarmVars, routed, historyVars,
                   context, final_response, requests, loop_owner, tasks>>

ServiceNext ==
    \/ Service_route
    \/ search_web
    \/ search_wikipedia
    \/ Service_call_model
    \/ write_memory
    \/ process_message

\* -------------------------------- agent/controller.py: DELETE /agent/memory
\* reset_memory after a turn of the user: reset_user_memory deletes the one
\* Redis key agent:memory:{user_id}; what it raises becomes HTTP 500.
reset_user_memory ==
    /\ graph \in {"tutor", "agent", "service"} /\ node = END /\ ~raised
    /\ returned.type \notin {"reset", "error"}
    /\ (graph = "service" => returned.type = "response")
    /\ \/ /\ store' = [store EXCEPT ![MemoryKey(user_id)] = <<>>]
          /\ returned' = [type |-> "reset", status |-> 204]
       \/ /\ returned' = [type |-> "error", status |-> 500]
          /\ UNCHANGED store
    /\ UNCHANGED <<graph, user_id, node, raised, messages, next_uuid, step_count,
                   judge, promptVars, reflectVars, swarmVars, routed, historyVars, context,
                   final_response, db_rows, requests, loop_owner, tasks>>

\* --------------------------- supervisor/responder.py: the responder workflow
\* responder_workflow runs alone and as the "responder" node of supervisor.py
\* (call_responder_subgraph), whose Command(goto=END) ends the run.
ResponderHosts == {"responder", "supervisor"}

ResponderTasks == {"profile", "grammar"}

\* The namespace kind each update task of the responder writes.
TaskKind_Mutant == [profile |-> "memory", grammar |-> "memory"]

TaskKind == [profile |-> "memory", grammar |-> "corrections"]

TaskError ==
    [profile |-> "Error updating profile: ", grammar |-> "Error updating grammar corrections: "]
TaskDone ==
    [profile |-> "Profile information updated successfully",
     grammar |-> "Grammar correction updated successfully"]

IdleTask == [pc |-> "idle", result |-> <<>>, put |-> 0, ret |-> <<>>]
NoTasks == [t \in ResponderTasks |-> IdleTask]

\* The update tasks started for an update_type.
TasksFor(update_type) ==
    CASE update_type = "user"    -> {"profile"}
      [] update_type = "grammar" -> {"grammar"}
      [] update_type = "both"    -> {"profile", "grammar"}
      [] OTHER                   -> {}

ResponderResponses ==
    {[content |-> <<"text">>, calls |-> k] :
        k \in {<<>>, <<UpdateMemory("user")>>, <<UpdateMemory("grammar")>>,
               <<UpdateMemory("both")>>, <<UpdateMemory("profile")>>}}

\* Steps 1 to 3 of responder_workflow up to the start of the update tasks:
\* without a tool call, or with an update_type no branch handles, the workflow
\* returns messages + [response].
generate_ai_response ==
    /\ graph \in ResponderHosts /\ node = "generate" /\ ~raised
    /\ \E r \in ResponderResponses :
         LET response == AIMessage(NewId(messages), r.content, r.calls)
             update_type == IF r.calls = <<>> THEN Absent ELSE r.calls[1].update_type
             started == TasksFor(update_type)
         IN  /\ messages' = Append(messages, response)
             /\ pending' = started
             /\ tasks' = [t \in ResponderTasks |->
                            IF t \in started THEN [IdleTask EXCEPT !.pc = "todo"]
                            ELSE IdleTask]
             /\ node' = IF started = {} THEN END ELSE "update"
    /\ dispatch_store' = store
    /\ step_count' = step_count + 1
    /\ UNCHANGED <<graph, user_id, raised, store, next_uuid, judge, promptVars,
                   original_message, attempted_corrections, writes, reflect_loops,
                   swarmVars, routed, faults, context, final_response, db_rows,
                   returned, requests, loop_owner>>

\* update_user_profile / update_grammar_corrections up to the extractor's
\* answer: what it raises is caught and becomes the task's return value.
Task_extract(t) ==
    /\ graph \in ResponderHosts /\ node = "update" /\ ~raised
    /\ tasks[t].pc = "todo"
    /\ LET existing_items == StoreSearch(store, <<TaskKind[t], user_id>>)
           id == Last(messages).tool_calls[1].id
       IN  \/ /\ tasks' = [tasks EXCEPT ![t] =
                             [@ EXCEPT !.pc = "done", !.ret = <<TaskError[t], "e">>]]
              /\ faults' = faults \cup {<<"extraction", id>>}
              /\ pending' = pending \ {t}
           \/ \E result \in ExtractorResults(existing_items) :
                /\ tasks' = [tasks EXCEPT ![t] =
                               [@ EXCEPT !.pc = "putting", !.result = result]]
                /\ UNCHANGED <<faults, pending>>
    /\ UNCHANGED <<graph, user_id, node, raised, messages, store, next_uuid,
                   step_count, judge, promptVars, original_message, attempted_corrections,
                   writes, reflect_loops, swarmVars, routed, dispatch_store,
                   context, final_response, db_rows, returned, requests,
                   loop_owner>>

\* One store.put of the task's loop; after the last one the task returns.
Task_put(t) ==
    /\ graph \in ResponderHosts /\ node = "update" /\ ~raised
    /\ tasks[t].pc = "putting"
    /\ LET r == tasks[t].result[tasks[t].put + 1]
           last == tasks[t].put + 1 = Len(tasks[t].result)
       IN  /\ store' = SaveMemories(store, <<TaskKind[t], user_id>>, <<r>>, next_uuid)
           /\ next_uuid' = next_uuid + 1
           /\ tasks' = [tasks EXCEPT ![t] =
                          [@ EXCEPT !.put = @ + 1,
                                    !.pc = IF last THEN "done" ELSE "putting",
                                    !.ret = IF last THEN <<TaskDone[t]>> ELSE <<>>]]
           /\ pending' = IF last THEN pending \ {t} ELSE pending
    /\ UNCHANGED <<graph, user_id, node, raised, messages, step_count, judge, promptVars,
                   original_message, attempted_corrections, writes, reflect_loops,
                   swarmVars, routed, historyVars, context, final_response,
                   db_rows, returned, requests, loop_owner>>

update_user_profile == Task_extract("profile") \/ Task_put("profile")
update_grammar_corrections == Task_extract("grammar") \/ Task_put("grammar")

\* The tool message of the update branch that ran.
UpdateMessage(update_type, id) ==
    ToolMessage(0,
        CASE update_type = "user"    -> tasks["profile"].ret
          [] update_type = "grammar" -> tasks["grammar"].ret
          [] OTHER -> <<"Both profile and grammar corrections updated successfully">>,
        "", id)

\* Both results are in: the tool message, then the final response.
responder_workflow ==
    /\ graph \in ResponderHosts /\ node = "update" /\ ~raised
    /\ pending = {}
    /\ \E content \in {<<"text">>, <<>>} :
         LET call == Last(messages).tool_calls[1]
             tool == [UpdateMessage(call.update_type, call.id)
                         EXCEPT !.id = NewId(messages)]
             final == AIMessage(NewId(messages) + 1, content, <<>>)
         IN  messages' = messages \o <<tool, final>>
    /\ node' = END
    /\ step_count' = step_count + 1
    /\ UNCHANGED <<graph, user_id, raised, store, next_uuid, judge, promptVars, reflectVars,
                   swarmVars, routed, historyVars, callerVars>>

ResponderNext ==
    \/ generate_ai_response
    \/ update_user_profile
    \/ update_grammar_corrections
    \/ responder_workflow

\* ----------------------- conversations/service.py: create_new_conversation
\* Chunks of the stream consumed per request.
MaxChunks == 3

KnownAgents == {"supervisor", "correction", "researcher", "enhancer", "validator"}

\* str.strip() on a content: the pieces that are not white space.
Strip(content) == SelectSeq(content, LAMBDA piece : piece # " ")

\* The messages one step of the streamed graph can add to the state.  The graph
\* itself (get_agent_graph) is not part of the sources.
StepDeltas ==
    {<<Message(0, "ai", c, n, <<>>, 0)>> :
        c \in {<<>>, <<" ">>, <<"text">>}, n \in {"", "supervisor", "responder"}}
    \cup {<<Message(0, "ai", <<"answer">>, "", <<>>, 0),
            Message(0, "ai", <<"FINISH">>, "supervisor", <<>>, 0)>>}

\* The test of the streaming loop's first branch: an unnamed assistant message
\* with text.
IsFinalResponse(m) == m.type = "ai" /\ m.name = "" /\ Strip(m.content) # <<>>

\* A test that takes any assistant message with text, whatever its name.
IsFallbackResponse_Mutant(m) == m.type = "ai" /\ Strip(m.content) # <<>>

\* The test of the second branch and of the search through all_messages.
IsFallbackResponse(m) ==
    m.type = "ai" /\ Strip(m.content) # <<>> /\ m.name \notin KnownAgents

\* for msg in reversed(all_messages): the last message that passes the test.
RECURSIVE FindFinal(_)
FindFinal(all_messages) ==
    IF all_messages = <<>> THEN NoResponse
    ELSE IF IsFallbackResponse(Last(all_messages)) THEN Last(all_messages)
    ELSE FindFinal(SubSeq(all_messages, 1, Len(all_messages) - 1))

\* except Exception: db.rollback(); raise -- and the controller's HTTP 500.
Failed(cause) ==
    /\ raised' = TRUE
    /\ faults' = faults \cup {<<cause, step_count>>}
    /\ returned' = [type |-> "error", status |-> 500]
    /\ node' = END

SaveFailurePending == \E f \in faults : f[1] = "checkpoint_pending"

\* The steps the streamed graph can take next: the messages the step adds and
\* the nodes that are left to run after it.  agent/service.py, from which the
\* handler takes its graph, builds call_model -> write_memory -> END, where
\* call_model adds the assistant message and write_memory adds none.
StreamSteps(left) ==
    IF left = {}
    THEN {[delta |-> d, left |-> {}] : d \in StepDeltas}
         \cup {[delta |-> <<Message(0, "ai", c, "", <<>>, 0)>>,
                 left |-> {ServiceEdges["call_model"]}] : c \in {<<"text">>, <<>>}}
    ELSE {[delta |-> <<>>, left |-> {}]}

\* One turn of `async for chunk in app.astream(...)`.  The executor saves a
\* step's checkpoint either before it hands out the step's values or in the
\* background: a failed save is raised by astream at once, or the next time the
\* stream is resumed.  After `break` the stream is not resumed: the nodes that
\* are left do not run.
astream ==
    /\ graph = "conversation" /\ node = "stream" /\ ~raised
    /\ \/ /\ SaveFailurePending
          /\ Failed("checkpoint")
          /\ UNCHANGED <<messages, final_response, step_count, pending>>
       \/ /\ ~SaveFailurePending
          /\ \E cause \in {"checkpoint", "node"} : Failed(cause)
          /\ UNCHANGED <<messages, final_response, step_count, pending>>
       \/ /\ ~SaveFailurePending
          /\ pending = {}
          /\ node' = "persist"
          /\ UNCHANGED <<raised, faults, returned, messages, final_response,
                         step_count, pending>>
       \/ /\ ~SaveFailurePending
          /\ step_count < MaxChunks
          /\ \E step \in StreamSteps(pending) :
               LET all_messages == AddMessages(messages, step.delta)
                   last_message == Last(all_messages)
               IN  /\ messages' = all_messages
                   /\ pending' = step.left
                   /\ final_response' =
                          IF IsFinalResponse(last_message)
                             \/ IsFallbackResponse(last_message)
                          THEN last_message ELSE final_response
                   /\ node' = IF IsFinalResponse(last_message) THEN "persist"
                              ELSE "stream"
          /\ \/ faults' = faults \cup {<<"checkpoint_pending", step_count>>}
             \/ UNCHANGED faults
          /\ step_count' = step_count + 1
          /\ UNCHANGED <<raised, returned>>
    /\ UNCHANGED <<graph, user_id, store, next_uuid, judge, promptVars, original_message,
                   attempted_corrections, writes, reflect_loops, swarmVars,
                   routed, dispatch_store, context, db_rows, requests, loop_owner,
                   tasks>>

\* A handler that stores the conversation before it looks for the response.
create_new_conversation_Mutant ==
    /\ graph = "conversation" /\ node = "persist" /\ ~raised
    /\ LET final == IF final_response # NoResponse THEN final_response
                    ELSE FindFinal(messages)
           row == [role |-> "ai",
                   content |-> IF final = NoResponse THEN <<>> ELSE final.content]
       IN  /\ final_response' = final
           /\ db_rows' = Append(db_rows, row)
           /\ IF final = NoResponse
              THEN Failed("no_response")
              ELSE /\ returned' = [type |-> "response", response |-> final.content]
                   /\ node' = END
                   /\ UNCHANGED <<raised, faults>>
    /\ UNCHANGED <<graph, user_id, messages, store, next_uuid, step_count, judge, promptVars,
                   reflectVars, swarmVars, routed, dispatch_store, context,
                   requests, loop_owner, tasks>>

\* create_new_conversation after the loop: the search through all_messages,
\* the exception when there is no response, then add, commit and refresh.
create_new_conversation ==
    /\ graph = "conversation" /\ node = "persist" /\ ~raised
    /\ LET final == IF final_response # NoResponse THEN final_response
                    ELSE FindFinal(messages)
           row == [role |-> "ai", content |-> final.content]
       IN  /\ final_response' = final
           /\ IF final = NoResponse
              THEN Failed("no_response") /\ UNCHANGED db_rows
              ELSE \/ Failed("commit") /\ UNCHANGED db_rows
                   \/ Failed("refresh") /\ db_rows' = Append(db_rows, row)
                   \/ /\ db_rows' = Append(db_rows, row)
                      /\ returned' = [type |-> "response", response |-> final.content]
                      /\ node' = END
                      /\ UNCHANGED <<raised, faults>>
    /\ UNCHANGED <<graph, user_id, messages, store, next_uuid, step_count, judge, promptVars,
                   reflectVars, swarmVars, routed, dispatch_store, context,
                   requests, loop_owner, tasks>>

ConversationNext ==
    \/ astream
    \/ create_new_conversation

\* ------------------------- supervisor/supervisor.py and supervisor-raw.py
\* Supersteps the executor allows one run of the validator graph.  The
\* library's default recursion_limit is 25; the graph sets none.
RecursionLimit == 8

\* HumanMessage(content=..., name=agent): what the supervisor graphs' nodes add.
NamedMessage(content, name) == Message(0, "human", content, name, <<>>, 0)

\* Supervisor.next of each file: Literal["correction", "researcher"] in
\* supervisor.py, Literal["correction", "enhancer", "researcher"] in
\* supervisor-raw.py.
SupervisorNext ==
    [supervisor     |-> {"correction", "researcher"},
     supervisor_raw |-> {"correction", "enhancer", "researcher"}]

\* Where each specialist's Command goes.
SpecialistGoto ==
    [supervisor     |-> [correction |-> "generate", researcher |-> "generate"],
     supervisor_raw |-> [correction |-> "validator", researcher |-> "validator",
                         enhancer |-> "supervisor"]]

\* A node that answers with Command(update={"messages": [message]}, goto=goto).
SupervisorStep(from, contents, targets) ==
    /\ graph \in {"supervisor", "supervisor_raw"} /\ node = from /\ ~raised
    /\ step_count < RecursionLimit
    /\ \E content \in contents, goto \in targets :
         /\ messages' = AddMessages(messages, <<NamedMessage(content, from)>>)
         /\ node' = goto
    /\ step_count' = step_count + 1
    /\ UNCHANGED <<graph, user_id, raised, store, next_uuid, judge, promptVars, reflectVars,
                   swarmVars, routed, historyVars, callerVars>>

\* supervisor_node of both files: goto = response.next.
supervisor_node == SupervisorStep("supervisor", {<<"reason">>}, SupervisorNext[graph])

\* correction_node: "CORRECT" or the corrected sentence.
correction_node ==
    SupervisorStep("correction", {<<"CORRECT">>, <<"corrected">>},
                   {SpecialistGoto[graph]["correction"]})

research_node ==
    SupervisorStep("researcher", {<<"findings">>}, {SpecialistGoto[graph]["researcher"]})

\* enhancer_node is a node of supervisor-raw.py only (supervisor.py has its
\* add_node commented out).
enhancer_node ==
    /\ graph = "supervisor_raw"
    /\ SupervisorStep("enhancer", {<<"enhanced">>}, {SpecialistGoto[graph]["enhancer"]})

\* validator_node: goto = response.next, "supervisor" or "responder".
validator_node ==
    /\ graph = "supervisor_raw"
    /\ SupervisorStep("validator", {<<"reason">>}, {"supervisor", "responder"})

\* responder_node of supervisor-raw.py: the final message, then END.
responder_node ==
    /\ graph = "supervisor_raw"
    /\ SupervisorStep("responder", {<<"text">>, <<>>}, {END})

\* The executor stops a run that needs another superstep after the last one
\* it allows: GraphRecursionError leaves the graph.
out_of_steps ==
    /\ graph = "supervisor_raw" /\ node # END /\ ~raised
    /\ step_count = RecursionLimit
    /\ raised' = TRUE
    /\ faults' = faults \cup {<<"recursion", step_count>>}
    /\ UNCHANGED <<graph, user_id, node, messages, store, next_uuid, step_count,
                   judge, promptVars, reflectVars, swarmVars, routed, dispatch_store,
                   callerVars>>

SupervisorGraphNext ==
    \/ supervisor_node
    \/ correction_node
    \/ research_node
    \/ enhancer_node
    \/ validator_node
    \/ responder_node
    \/ out_of_steps

\* ----------------------- two turns of one owner that update the same memory
\* The turns that run at the same time, each on its own conversation thread.
Turns == {1, 2}

\* The update code a turn runs: write_memory of service.py, update_profile of
\* graph.py, update_profile of agent_graph.py.
TurnKinds == {"write_memory", "update_profile", "Agent_update_profile"}

\* The store namespace (Redis key) that code reads and writes.
TurnNamespace(kind, user) ==
    IF kind = "write_memory" THEN MemoryKey(user) ELSE <<"profile", user>>

\* The personal fact the user gives in each turn.
Told == [t \in Turns |-> IF t = 1 THEN "fact1" ELSE "fact2"]

Turn(kind) == [kind |-> kind, pc |-> "extract", result |-> <<>>]

ProfileDoc(data) == [data |-> data, timestamp |-> 0]

\* The extractor at its best: the document it was shown, with the turn's fact
\* added.  write_memory keeps responses[0]; the extractor of graph.py may also
\* insert a new document (enable_inserts=True); agent_graph.py extracts from
\* the turn's conversation alone.
TurnExtraction(kind, existing_items, told) ==
    LET inserted == <<[json_doc_id |-> 0, value |-> ProfileDoc({told})]>>
        patched == <<[json_doc_id |-> IF kind = "update_profile"
                                      THEN existing_items[1].key ELSE 0,
                      value |-> ProfileDoc(existing_items[1].value.data \cup {told})]>>
    IN  CASE kind = "Agent_update_profile" -> {inserted}
          [] existing_items = <<>>         -> {inserted}
          [] kind = "write_memory"         -> {patched}
          [] OTHER                         -> {inserted, patched}

\* The first half of the update code: read the stored memory, call the extractor.
Turn_extract(t) ==
    /\ graph = "turns" /\ requests[t].pc = "extract"
    /\ LET kind == requests[t].kind
           existing_items == IF kind = "Agent_update_profile" THEN <<>>
                             ELSE StoreSearch(store, TurnNamespace(kind, user_id))
       IN  \/ /\ requests' = [requests EXCEPT ![t].pc = "failed"]
              /\ faults' = faults \cup {<<"extraction", t>>}
           \/ \E result \in TurnExtraction(kind, existing_items, Told[t]) :
                /\ requests' = [requests EXCEPT ![t].pc = "write", ![t].result = result]
                /\ UNCHANGED faults
    /\ UNCHANGED <<graph, user_id, node, raised, messages, store, next_uuid,
                   step_count, judge, promptVars, reflectVars, swarmVars, routed, dispatch_store,
                   context, final_response, db_rows, returned, loop_owner, tasks>>

\* The second half: redis_client.set of the one key, or the store.put loop.
Turn_write(t) ==
    /\ graph = "turns" /\ requests[t].pc = "write"
    /\ LET kind == requests[t].kind
           namespace == TurnNamespace(kind, user_id)
           result == requests[t].result
       IN  IF kind = "update_profile"
           THEN /\ store' = SaveMemories(store, namespace, result, next_uuid)
                /\ next_uuid' = next_uuid + Len(result)
           ELSE /\ store' = StorePut(store, namespace, 0, result[1].value)
                /\ UNCHANGED next_uuid
    /\ requests' = [requests EXCEPT ![t].pc = "done"]
    /\ UNCHANGED <<graph, user_id, node, raised, messages, step_count, judge, promptVars,
                   reflectVars, swarmVars, routed, historyVars, context,
                   final_response, db_rows, returned, loop_owner, tasks>>

TurnsNext ==
    \E t \in Turns :
        \/ Turn_extract(t)
        \/ Turn_write(t)

\* ------------------------------ the HTTP handlers on the server's event loop
\* Node steps of the graph run for one request.
GraphSteps == 2

\* The conversation ids a client can put in /agent/chat/{conversation_id}.
ChatThreads == {100, 101}

\* A handler that gives up the event loop between the steps of its graph.
Suspends_Mutant(kind) == TRUE

\* conversations/controller.py awaits create_new_conversation, which awaits
\* every chunk of astream; agent/controller.py process_message is `async def`
\* around the blocking service.process_message and awaits nothing.
Suspends(kind) == kind = "new"

Request(kind, thread) == [kind |-> kind, thread |-> thread, pc |-> "waiting", steps |-> 0]

InFlight(r) == requests[r].pc \in {"running", "suspended"}

\* The event loop starts a handler: create_new_conversation draws its thread id
\* with uuid4().
Request_begin(r) ==
    /\ graph = "server" /\ loop_owner = 0
    /\ requests[r].pc = "waiting"
    /\ IF requests[r].kind = "new"
       THEN /\ requests' = [requests EXCEPT ![r].pc = "running",
                                            ![r].thread = next_uuid]
            /\ next_uuid' = next_uuid + 1
       ELSE /\ requests' = [requests EXCEPT ![r].pc = "running"]
            /\ UNCHANGED next_uuid
    /\ loop_owner' = r
    /\ UNCHANGED <<graph, user_id, node, raised, messages, store, step_count, judge, promptVars,
                   reflectVars, swarmVars, routed, historyVars, context,
                   final_response, db_rows, returned, tasks>>

\* One node step of the request's graph run on its thread.
Request_step(r) ==
    /\ graph = "server" /\ loop_owner = r
    /\ requests[r].pc = "running" /\ requests[r].steps < GraphSteps
    /\ IF Suspends(requests[r].kind)
       THEN /\ requests' = [requests EXCEPT ![r].steps = @ + 1, ![r].pc = "suspended"]
            /\ loop_owner' = 0
       ELSE /\ requests' = [requests EXCEPT ![r].steps = @ + 1]
            /\ UNCHANGED loop_owner
    /\ step_count' = step_count + 1
    /\ UNCHANGED <<graph, user_id, node, raised, messages, store, next_uuid, judge, promptVars,
                   reflectVars, swarmVars, routed, historyVars, context,
                   final_response, db_rows, returned, tasks>>

\* The awaited chunk is there: the event loop resumes the handler.
Request_resume(r) ==
    /\ graph = "server" /\ loop_owner = 0
    /\ requests[r].pc = "suspended"
    /\ requests' = [requests EXCEPT ![r].pc = "running"]
    /\ loop_owner' = r
    /\ UNCHANGED <<graph, user_id, node, raised, messages, store, next_uuid,
                   step_count, judge, promptVars, reflectVars, swarmVars, routed, historyVars,
                   context, final_response, db_rows, returned, tasks>>

\* The handler returns its response.
Request_end(r) ==
    /\ graph = "server" /\ loop_owner = r
    /\ requests[r].pc = "running" /\ requests[r].steps = GraphSteps
    /\ requests' = [requests EXCEPT ![r].pc = "done"]
    /\ loop_owner' = 0
    /\ UNCHANGED <<graph, user_id, node, raised, messages, store, next_uuid,
                   step_count, judge, promptVars, reflectVars, swarmVars, routed, historyVars,
                   context, final_response, db_rows, returned, tasks>>

ServerNext ==
    \E r \in DOMAIN requests :
        \/ Request_begin(r)
        \/ Request_step(r)
        \/ Request_resume(r)
        \/ Request_end(r)

\* ------------------------------------------------------------ specification
InitCommon ==
    /\ raised = FALSE
    /\ next_uuid = 1
    /\ step_count = 0
    /\ original_message = <<>>
    /\ attempted_corrections = <<>>
    /\ pending = {}
    /\ writes = NoWrites
    /\ reflect_loops = 0
    /\ handoffs = 0
    /\ routed = Unrouted
    /\ faults = {}
    /\ dispatch_store = EmptyStore
    /\ context = <<>>
    /\ final_response = NoResponse
    /\ db_rows = <<>>
    /\ returned = NoResponse
    /\ loop_owner = 0
    /\ tasks = NoTasks
    /\ system_msg = [user_profile |-> <<>>, recent_conversations |-> <<>>]

InitRoute ==
    /\ graph = "route" /\ node = "route"
    /\ user_id = "u1" /\ judge = "free"
    /\ \E m \in RouteInputs : messages = <<m>>

InitReflect ==
    /\ graph = "reflect" /\ node = "store_original_message"
    /\ user_id = "u1"
    /\ judge \in {"negative", "free"}
    /\ \E c \in {<<>>, <<"hello">>} : messages = <<HumanMessage(1, c)>>

InitTutor ==
    /\ graph = "tutor" /\ node = "ai_language_tutor"
    /\ user_id \in Users /\ judge = "free"
    /\ messages = <<HumanMessage(1, <<"hello">>)>>

InitAgent ==
    /\ graph = "agent" /\ node = "conversational_agent"
    /\ user_id \in Users /\ judge = "free"
    /\ messages = <<HumanMessage(1, <<"hello">>)>>

InitSwarm ==
    /\ graph = "swarm" /\ node = "corrections_agent"
    /\ user_id = "u1" /\ judge = "free"
    /\ messages = <<HumanMessage(1, <<"hello">>)>>

\* process_message: one new message on a conversation.
InitService ==
    /\ graph = "service" /\ node = "START"
    /\ user_id \in Users /\ judge = "free"
    /\ \E c \in {<<"hello">>, <<"What is", "x">>, <<"NEWS">>, <<"whatever">>} :
         messages = <<HumanMessage(1, c)>>

\* The store a turn finds when an earlier turn of the user saved a profile and
\* a correction.
EarlierTurnStore(user) ==
    [EmptyStore EXCEPT
        ![<<"memory", user>>] = <<[key |-> 100, value |-> [data |-> "v1", timestamp |-> 0]]>>,
        ![<<"corrections", user>>] = <<[key |-> 101, value |-> [data |-> "v1", timestamp |-> 0]]>>]

InitResponder ==
    /\ graph = "responder" /\ node = "generate"
    /\ user_id \in Users /\ judge = "free"
    /\ messages = <<HumanMessage(1, <<"hello">>)>>

\* Both supervisor graphs start at the supervisor node.
InitSupervisor ==
    /\ graph \in {"supervisor", "supervisor_raw"} /\ node = "supervisor"
    /\ user_id \in Users /\ judge = "free"
    /\ messages = <<HumanMessage(1, <<"hello">>)>>

\* The stream's first chunk is the input: the user's first message.
InitConversation ==
    /\ graph = "conversation" /\ node = "stream"
    /\ user_id \in Users /\ judge = "free"
    /\ messages = <<HumanMessage(1, <<"hello">>)>>

\* Three requests of one user reach the server at about the same time.
InitServer ==
    /\ graph = "server" /\ node = "serve"
    /\ user_id = "u1" /\ judge = "free"
    /\ messages = <<HumanMessage(1, <<"hello">>)>>
    /\ requests \in [1..3 -> {Request("chat", t) : t \in ChatThreads}
                               \cup {Request("new", 0)}]

\* Both turns run the same update code; an earlier turn may have saved a profile.
StoredProfile(kind, user) ==
    [EmptyStore EXCEPT ![TurnNamespace(kind, user)] =
        <<[key |-> IF kind = "update_profile" THEN 100 ELSE 0,
           value |-> ProfileDoc({"fact0"})]>>]

InitTurns ==
    /\ graph = "turns" /\ node = "update"
    /\ user_id = "u1" /\ judge = "free"
    /\ messages = <<HumanMessage(1, <<"hello">>)>>
    /\ \E kind \in TurnKinds : requests = [t \in Turns |-> Turn(kind)]

Init ==
    /\ InitCommon
    /\ (InitRoute \/ InitReflect \/ InitTutor \/ InitAgent \/ InitSwarm
          \/ InitService \/ InitResponder \/ InitConversation \/ InitServer
          \/ InitSupervisor \/ InitTurns)
    /\ (graph \notin {"server", "turns"} => requests = <<>>)
    /\ store \in (CASE graph = "responder" -> {EmptyStore, EarlierTurnStore(user_id)}
                    [] graph = "turns" ->
                         {EmptyStore, StoredProfile(requests[1].kind, user_id)}
                    [] OTHER -> {EmptyStore})
    /\ redis_conversations \in (IF graph = "agent" THEN StoredConversationKeys
                                ELSE {{}})
    /\ active_agent = (IF graph = "swarm" THEN "Correction" ELSE "")
    /\ parent_messages = (IF graph = "swarm" THEN messages ELSE <<>>)

Next ==
    \/ ApplyRouting
    \/ ReflectNext
    \/ TutorNext
    \/ AgentNext
    \/ SwarmNext
    \/ ServiceNext
    \/ ResponderNext
    \/ ConversationNext
    \/ ServerNext
    \/ SupervisorGraphNext
    \/ TurnsNext
    \/ reset_user_memory

Spec == Init /\ [][Next]_vars

\* ------------------------------------------------------------------ claims
LastCalls == Last(messages).tool_calls

\* C1: with an evaluator that always scores negative, a run of the reflection
\* graph takes at most MAX_CORRECTION_RETRIES + 1 tutor steps.
C1_TerminatesWithinRetryCap ==
    (graph = "reflect" /\ judge = "negative")
        => step_count <= MAX_CORRECTION_RETRIES + 1

\* C2: with an evaluator that always scores negative, a run that has ended took
\* the edge reflect -> tutor exactly MAX_CORRECTION_RETRIES times and its last
\* message is the tutor's last response.
C2_LoopsExactlyMaxRetries ==
    (graph = "reflect" /\ judge = "negative" /\ node = END /\ original_message # <<>>)
        => /\ reflect_loops = MAX_CORRECTION_RETRIES
           /\ Last(messages).type = "ai"

\* C3: an iteration cap bounds the primary-node/extractor cycle of the production
\* tutor graph: no run takes more primary-node steps than the cap, whatever the
\* model answers.
C3_IterationCap ==
    graph = "tutor" => step_count <= MAX_CORRECTION_RETRIES + 1

\* C4: a latest assistant message without tool calls is routed to END by
\* route_message and route_action, in the routing functions alone and in every
\* run; route_tools never selects an extractor node for it.
C4_NoToolCallRoutesToEnd ==
    /\ (graph = "route" /\ node = END /\ LastCalls = <<>>)
          => /\ routed.route_message = END
             /\ routed.route_action = END
             /\ routed.correction = END
             /\ routed.profile = END
             /\ routed.route_tools = <<"reflect">>
    /\ (graph \in {"tutor", "agent", "swarm"}
          /\ Last(messages).type = "ai" /\ LastCalls = <<>>)
          => node = END
    /\ (graph = "reflect" /\ Last(messages).type = "ai" /\ LastCalls = <<>>)
          => node \in {"reflect", END}

C4_Witness ==
    /\ graph = "route" /\ node = END /\ LastCalls = <<>>
    /\ routed.route_action = END

\* C5: route_message of the production graph maps the first tool call's
\* update_type by exact match: profile, topic, grammar and web_search to their
\* nodes, every other value and a missing one to END; a run of the production
\* graph is never at any other node.
RouteTable ==
    [profile |-> "update_profile", topic |-> "update_topic",
     grammar |-> "update_grammar", web_search |-> "web_search_api"]

C5_RouteMessageExactMatch ==
    /\ (graph = "route" /\ node = END)
          => LET t == IF LastCalls = <<>> \/ ~LastCalls[1].has_args THEN Absent
                      ELSE LastCalls[1].update_type
             IN  routed.route_message =
                     (IF t \in DOMAIN RouteTable THEN RouteTable[t] ELSE END)
    /\ graph = "tutor"
          => node \in {"ai_language_tutor", "update_profile", "update_topic",
                       "update_grammar", "web_search_api", END}
    /\ (graph = "tutor" /\ Last(messages).type = "ai" /\ LastCalls # <<>>)
          => node = (IF LastCalls[1].update_type \in DOMAIN RouteTable
                     THEN RouteTable[LastCalls[1].update_type] ELSE END)

C5_Witness ==
    /\ graph = "route" /\ node = END
    /\ LastCalls # <<>> /\ LastCalls[1].update_type = "web_search"
    /\ routed.route_message = "web_search_api"

\* C6: a latest assistant message whose first tool call is a malformed
\* UpdateMemory (no args, no update_type, an unknown update_type) makes no
\* routing function raise; a message with that call alone is routed to END.
MalformedCall(tc) ==
    /\ tc.name = "UpdateMemory"
    /\ (~tc.has_args \/ tc.update_type \in {Absent, "user"})

C6_RoutingFailureNeverRaised ==
    (graph = "route" /\ node = END /\ LastCalls # <<>> /\ MalformedCall(LastCalls[1]))
        => \A r \in {routed.route_message, routed.route_action, routed.correction,
                     routed.profile} :
              /\ r # RAISE
              /\ (Len(LastCalls) = 1 => r = END)

\* C7: in the swarm sub-graphs a message that asks for a memory update and a
\* handoff goes to the memory-update node, and the handoff node never runs on a
\* message whose memory update has not been run.
UpdateTypeOf(agent) == IF agent = "Correction" THEN "corrections" ELSE "profile"
UpdateNodeOf(agent) == IF agent = "Correction" THEN "update_corrections"
                       ELSE "update_memories"
TransferOf(agent) == IF agent = "Correction" THEN "transfer_to_profile"
                     ELSE "transfer_to_correction_agent"

AsksBoth(agent, calls) ==
    /\ HasUpdate(calls, UpdateTypeOf(agent))
    /\ \E i \in 1..Len(calls) : calls[i].name = TransferOf(agent)

C8_HandoffPreservesHistory ==
    [][handoffs' = handoffs + 1 =>
          /\ Len(messages') = Len(messages) + 1
          /\ SubSeq(messages', 1, Len(messages)) = messages
          /\ parent_messages' = messages'
          /\ Last(messages').type = "tool"
          /\ Last(messages').name = TransferOf(active_agent)
          /\ Last(messages').content =
                 <<"Successfully transferred to ", active_agent', " - ",
                   FirstCallNamed(LastCalls, TransferOf(active_agent)).arg>>
          /\ active_agent' # active_agent]_vars

C8_Witness ==
    /\ graph = "swarm" /\ handoffs > 0
    /\ active_agent = "Profile" /\ node = "profile_agent"
    /\ Last(messages).name = "transfer_to_profile"

\* C9: in the tutor graphs the step after an extractor node is the primary
\* node, and END is entered only from the primary node.
C9_ExtractorsReturnToPrimary ==
    [][/\ graph = "tutor" =>
            /\ (node \in DOMAIN TutorEdges /\ ~raised')
                  => node' = "ai_language_tutor"
            /\ (node' = END /\ node # END) => node = "ai_language_tutor"
       /\ graph = "agent" =>
            /\ (node \in DOMAIN AgentEdges /\ ~raised')
                  => node' = "conversational_agent"
            /\ (node' = END /\ node # END) => node = "conversational_agent"]_vars

C9_Witness ==
    /\ graph = "tutor" /\ node = "ai_language_tutor"
    /\ Last(messages).type = "tool"
    /\ Last(messages).content = <<"Web search completed for: ", "question">>

\* C10: the records of a namespace have distinct ids, and repeating an update
\* leaves no second record with the same value.
C10_IdempotentReplace ==
    graph = "reflect" =>
        \A ns \in Namespaces : \A i, j \in 1..Len(store[ns]) :
            i # j => /\ store[ns][i].key # store[ns][j].key
                     /\ store[ns][i].value # store[ns][j].value

\* C11: an extractor step leaves every record of every other namespace as it
\* was; in its own namespace no record is removed or re-keyed, a record that
\* changes takes the value of a patch the extractor reported for its id, and a
\* new record comes under an id no record had.  The Redis-backed steps write
\* the one record of their user and nothing else.
KeysOf(items) == {items[i].key : i \in 1..Len(items)}

ExtractorKind ==
    [update_profile |-> "profile", update_topic |-> "topic",
     update_grammar |-> "grammar", web_search_api |-> "web_search"]

StepFrame(ns, reported) ==
    /\ \A other \in Namespaces \ {ns} : store'[other] = store[other]
    /\ Len(store'[ns]) >= Len(store[ns])
    /\ \A i \in 1..Len(store[ns]) :
         /\ store'[ns][i].key = store[ns][i].key
         /\ store'[ns][i] # store[ns][i]
               => \E result \in reported : \E k \in 1..Len(result) :
                     /\ result[k].json_doc_id = store[ns][i].key
                     /\ result[k].value = store'[ns][i].value
    /\ \A j \in (Len(store[ns]) + 1)..Len(store'[ns]) :
         store'[ns][j].key \notin UNION {KeysOf(store[n]) : n \in Namespaces}

C11_ExtractorFrame ==
    [][/\ (graph = "tutor" /\ store' # store)
             => /\ node \in DOMAIN ExtractorKind
                /\ StepFrame(<<ExtractorKind[node], user_id>>,
                             ExtractorResultsOf(ToolName[node],
                                 store[<<ExtractorKind[node], user_id>>]))
       /\ (graph = "agent" /\ store' # store)
             => /\ node = "update_profile"
                /\ \A other \in Namespaces \ {<<"profile", user_id>>} :
                      store'[other] = store[other]
                /\ Len(store'[<<"profile", user_id>>]) = 1
       /\ (graph = "service" /\ node # END /\ store' # store)
             => /\ node = "write_memory"
                /\ \A other \in Namespaces \ {MemoryKey(user_id)} :
                      store'[other] = store[other]
                /\ Len(store'[MemoryKey(user_id)]) = 1]_vars

C11_Witness ==
    /\ graph = "tutor"
    /\ Len(store[<<"profile", user_id>>]) = 2
    /\ store[<<"profile", user_id>>][1].value.data = "v2"
    /\ store[<<"profile", user_id>>][2].value.data = "v1"
    /\ store[<<"topic", user_id>>] # <<>>

\* C12: in the production graph a failure inside an extractor or tool node
\* never aborts the run: the node answers with an error tool message and the
\* primary node runs next.
ExtractionFailed == \E f \in faults : f[1] = "extraction"

C12_NodeFailureDoesNotAbort ==
    (graph = "tutor" /\ ExtractionFailed) => ~raised

\* C14: a failing capability of the search-and-memory graph (web search,
\* Wikipedia search, model completion) never makes an exception leave the graph
\* invocation: the caller gets a reply, not an error.
CapabilityFailed ==
    \E f \in faults : f[1] \in {"web_search", "wikipedia", "model"}

C14_CapabilityFailureRecovered ==
    (graph = "service" /\ CapabilityFailed)
        => /\ ~raised
           /\ returned.type # "error"

\* C15: a failing memory read in the primary conversation node never fails the
\* turn: the node goes on as with an empty memory.
MemoryReadFailed == <<"memory_read", 0>> \in faults

C15_MemoryReadFailureDegrades ==
    (graph \in {"agent", "tutor", "service"} /\ MemoryReadFailed) => ~raised

\* C13: when the extraction of a memory-update step throws, the run is not
\* aborted and the tool message that answers the update reports the failure,
\* never a saved update.
FailureReports ==
    {"Error updating profile: ", "Error updating grammar corrections: ",
     "Error in grammar correction extraction: "}

C13_ExtractionFailureReported ==
    (graph \in {"swarm", "responder", "service"} /\ ExtractionFailed)
        => /\ ~raised
           /\ \A i \in 1..Len(messages) :
                (/\ messages[i].type = "tool"
                 /\ <<"extraction", messages[i].tool_call_id>> \in faults)
                    => messages[i].content[1] \in FailureReports

\* C19: in the fan-out graph every node whose tool the tutor's message calls is
\* dispatched in the step that follows it, the tutor runs again only when none
\* of them is still to run, and the tool messages it then sees are the ones of
\* the called tools in one fixed order, whatever order the nodes ran in.
ToolOf == [profile |-> "profile_tool", topic |-> "topic_tool", grammar |-> "grammar_tool"]
ResultOf ==
    [profile |-> <<"Updated user profile information">>,
     topic |-> <<"Recorded topic">>, grammar |-> <<"Recorded grammar correction">>]

Called(calls) == {n \in FanOutNodes : \E i \in 1..Len(calls) : calls[i].name = ToolOf[n]}

LastAIIndex(msgs) ==
    CHOOSE k \in 1..Len(msgs) :
        msgs[k].type = "ai" /\ \A j \in (k + 1)..Len(msgs) : msgs[j].type # "ai"

\* What a tool message says, without the id the reducer gave it.
Said(m) == [content |-> m.content, name |-> m.name, tool_call_id |-> m.tool_call_id]

OutputsOf(n, calls) ==
    LET mine == SelectSeq(calls, LAMBDA c : c.name = ToolOf[n])
    IN  [i \in 1..Len(mine) |->
            [content |-> ResultOf[n], name |-> ToolOf[n], tool_call_id |-> mine[i].id]]

Norm(st) ==
    [ns \in Namespaces |->
        [i \in 1..Len(st[ns]) |->
            [key |-> IF st[ns][i].key \in KeysOf(dispatch_store[ns])
                     THEN st[ns][i].key ELSE 0,
             data |-> st[ns][i].value.data]]]

FanOutInOrder ==
    LET calls == messages[LastAIIndex(messages)].tool_calls
        Mine(n) == SelectSeq(calls, LAMBDA c : c.name = ToolOf[n])
        a == PutAll(dispatch_store, <<"profile", user_id>>, Mine("profile"), 1000, FALSE)
        b == PutAll(a, <<"topic", user_id>>, Mine("topic"), 2000, TRUE)
    IN  PutAll(b, <<"grammar", user_id>>, Mine("grammar"), 3000, TRUE)

TasksInOrder ==
    LET a == SaveMemories(dispatch_store, <<TaskKind["profile"], user_id>>,
                          tasks["profile"].result, 1000)
    IN  SaveMemories(a, <<TaskKind["grammar"], user_id>>, tasks["grammar"].result, 2000)

C20_ConcurrentWritesCommute ==
    /\ (graph = "reflect" /\ node = "tutor" /\ Last(messages).type = "tool")
          => Norm(store) = Norm(FanOutInOrder)
    /\ (graph = "responder" /\ node \in {"update", END} /\ pending = {})
          => Norm(store) = Norm(TasksInOrder)

C20_Witness ==
    /\ graph = "responder" /\ node = "update" /\ pending = {}
    /\ tasks["profile"].pc = "done" /\ tasks["grammar"].pc = "done"
    /\ Len(store[<<"memory", user_id>>]) = 2
    /\ Len(store[<<"corrections", user_id>>]) = 2
    /\ store[<<"corrections", user_id>>][2].key < store[<<"memory", user_id>>][2].key

\* C16: when a checkpoint save of the turn has failed, the caller gets an error
\* and no assistant text: no response is returned and no conversation row is
\* committed.
CheckpointSaveFailed ==
    \E f \in faults : f[1] \in {"checkpoint", "checkpoint_pending"}

C16_CheckpointFailureIsFatal ==
    (graph = "conversation" /\ CheckpointSaveFailed /\ node = END)
        => /\ returned.type = "error"
           /\ db_rows = <<>>

\* C17: create_new_conversation returns a response only with a captured final
\* assistant message, whose text is the response and the stored row; when the
\* stream ends without one the caller gets an error and no row is committed.
C17_NoResponseIsFatal ==
    graph = "conversation" =>
        /\ returned.type = "response" =>
              /\ final_response # NoResponse
              /\ IsFallbackResponse(final_response)
              /\ returned.response = final_response.content
              /\ db_rows = <<[role |-> "ai", content |-> final_response.content]>>
        /\ (node = END /\ final_response = NoResponse) =>
              /\ returned.type = "error"
              /\ db_rows = <<>>
        /\ db_rows # <<>> => final_response # NoResponse

C17_Witness ==
    /\ graph = "conversation" /\ node = END
    /\ final_response = NoResponse
    /\ <<"no_response", MaxChunks>> \in faults
    /\ returned.type = "error" /\ db_rows = <<>>

RoutesOf(msgs) ==
    LET routes == route_tools(msgs)
    IN  IF routes = <<"reflect">> THEN {} ELSE {routes[i] : i \in 1..Len(routes)}

IsPrefix(s, t) == Len(s) <= Len(t) /\ SubSeq(t, 1, Len(s)) = s

C22_MessagesAppendOnly == [][IsPrefix(messages, messages')]_vars

\* A handoff has put the sub-graph's whole list through the reducer, and later
\* steps have appended to it.
C22_Witness ==
    /\ graph = "swarm" /\ handoffs >= 1 /\ Len(messages) >= 5

\* C23: after a successful memory reset for a user, the profile, the topics,
\* the grammar corrections and the web-search memory of that user are all
\* empty, in the store the graphs read and under the user's memory key.
MemoryOf(user) ==
    {<<k, user>> : k \in {"profile", "topic", "grammar", "web_search", "memory"}}

C23_ResetClearsAllMemory ==
    (returned.type = "reset")
        => \A ns \in MemoryOf(user_id) : StoreSearch(store, ns) = <<>>

\* C24: when the primary node of the production graph has asked for
\* update_type=profile and the profile extractor has run, the run is back at the
\* primary node with the request and its answer as the last two messages, the
\* namespace (profile, owner) holds a record, and a record the extractor has
\* just added is the one the primary node reads (memories[0]).
ReadProfile(st, user) ==
    IF StoreSearch(st, <<"profile", user>>) = <<>> THEN NoResponse
    ELSE StoreSearch(st, <<"profile", user>>)[1]

C24_ProfileUpdateScenario ==
    (/\ graph = "tutor" /\ ~raised /\ node = "ai_language_tutor"
     /\ Last(messages).type = "tool"
     /\ Last(messages).content = <<"Updated profile information">>)
        => LET ns == <<"profile", user_id>>
               request == messages[Len(messages) - 1]
           IN  /\ request.type = "ai"
               /\ request.tool_calls[1].update_type = "profile"
               /\ Last(messages).tool_call_id = request.tool_calls[1].id
               /\ StoreSearch(store, ns) # <<>>
               /\ (next_uuid - 1) \in KeysOf(StoreSearch(store, ns))
                     => ReadProfile(store, user_id).key = next_uuid - 1

\* C25: a reflect step whose evaluator did not score negative adds no message
\* and takes the run to END, whatever the retry counter is.
C25_PositiveScoreEnds ==
    [][(graph = "reflect" /\ node = "reflect" /\ faults' = faults)
          => (messages' = messages /\ node' = END)]_vars

\* A run that ended below the retry cap after an earlier negative pass: its
\* last pass was scored positive.
C25_Witness ==
    /\ graph = "reflect" /\ node = END /\ reflect_loops >= 1
    /\ original_message # <<>>
    /\ Len(attempted_corrections) < MAX_CORRECTION_RETRIES
    /\ Len(attempted_corrections) >= 2

\* C26: a run of a supervisor graph that has reached END began with the
\* supervisor, every supervisor decision was followed by one specialist,
\* correction or researcher, and the run ended with one responder step whose
\* output is the last message.
NamedIndexes(name) == {i \in 1..Len(messages) : messages[i].name = name}

\* The messages of the agents, as opposed to the user's and the responder
\* workflow's.
AgentMessages == {i \in 1..Len(messages) : messages[i].name \in KnownAgents}

C26_EndOnlyAfterResponder ==
    (graph \in {"supervisor", "supervisor_raw"} /\ node = END /\ ~raised)
        => /\ Len(messages) >= 4
           /\ messages[2].name = "supervisor"
           /\ \A i \in NamedIndexes("supervisor") :
                 /\ i < Len(messages)
                 /\ messages[i + 1].name \in {"correction", "researcher"}
           /\ IF graph = "supervisor_raw"
              THEN /\ NamedIndexes("responder") = {Len(messages)}
              ELSE /\ Last(messages).type = "ai"
                   /\ \A i \in AgentMessages : i <= 3
                   /\ \A i \in 4..Len(messages) : messages[i].type \in {"ai", "tool"}

\* C27: when create_new_conversation returns an assistant text, the streamed
\* graph has no node left to run for the turn, and the text is that of an
\* assistant message of the run.
C27_ReturnedTextIsTerminal ==
    (graph = "conversation" /\ returned.type = "response")
        => /\ pending = {}
           /\ returned.response = final_response.content
           /\ \E i \in 1..Len(messages) : messages[i] = final_response

\* C28: in the production graph every record of a namespace is a document of
\* that namespace's kind, and only the namespaces of the run's owner hold
\* records: update_profile writes (profile, owner), update_topic (topic, owner),
\* update_grammar (grammar, owner) and web_search_api (web_search, owner).
SchemaOf ==
    [profile |-> "Profile", topic |-> "Topic", grammar |-> "Grammar",
     web_search |-> "WebSearchKnowledge"]

C28_NamespaceKindAndOwner ==
    graph = "tutor" =>
        \A ns \in Namespaces :
            /\ ns[2] # user_id => StoreSearch(store, ns) = <<>>
            /\ StoreSearch(store, ns) # <<>> => ns[1] \in DOMAIN SchemaOf
            /\ \A i \in 1..Len(StoreSearch(store, ns)) :
                  StoreSearch(store, ns)[i].value.schema = SchemaOf[ns[1]]

\* Every extractor of the graph has written for the second user.
C28_Witness ==
    /\ graph = "tutor" /\ user_id = "u2"
    /\ \A k \in DOMAIN SchemaOf : StoreSearch(store, <<k, "u2">>) # <<>>

\* C29: the validator -> supervisor loop is bounded: a run of the validator
\* graph that has stopped has run the responder node and reached END, whatever
\* the validator and the supervisor chose on the way.
C29_ValidatorLoopBounded ==
    (graph = "supervisor_raw" /\ (raised \/ node = END \/ step_count = RecursionLimit))
        => /\ node = END /\ ~raised
           /\ NamedIndexes("responder") # {}

\* C30: when the primary node of the production graph (or of the profile-only
\* graph) runs again after an assistant message with tool calls, each tool call
\* of that message has exactly one tool message that answers its id.
AnswersTo(id) ==
    {i \in 1..Len(messages) : messages[i].type = "tool" /\ messages[i].tool_call_id = id}

C30_EveryToolCallAnswered ==
    (/\ graph \in {"tutor", "agent"} /\ ~raised
     /\ node \in {"ai_language_tutor", "conversational_agent"}
     /\ Last(messages).type = "tool")
        => LET request == messages[Len(messages) - 1]
           IN  \A k \in 1..Len(request.tool_calls) :
                  Cardinality(AnswersTo(request.tool_calls[k].id)) = 1


\* The values each variant's UpdateMemory schema declares for update_type.
DeclaredUpdateTypes ==
    [working_main |-> {"user", "topic", "grammar", "web_search"},
     models       |-> {"profile", "topic", "grammar", "web_search"}]

\* C31: a first tool call UpdateMemory whose update_type is a value declared by
\* the schema of its variant is routed to an extractor node, never to END.
C31_DeclaredTypesReachExtractor ==
    (/\ graph = "route" /\ node = END
     /\ LastCalls # <<>> /\ LastCalls[1].name = "UpdateMemory" /\ LastCalls[1].has_args
     /\ LastCalls[1].update_type
            \in DeclaredUpdateTypes.working_main \cup DeclaredUpdateTypes.models)
        => routed.route_message
               \in {"update_profile", "update_topic", "update_grammar", "web_search_api"}


\* C32: in the swarm sub-graphs, when a run has ended, every handoff that an
\* assistant message asked for together with a memory update has been made:
\* the handoff tool answered that call after the memory-update node ran.
C32_HandoffAfterUpdateNotLost ==
    (graph = "swarm" /\ node = END /\ ~raised)
        => \A i \in 1..Len(messages) : \A agent \in {"Correction", "Profile"} :
              (messages[i].type = "ai" /\ AsksBoth(agent, messages[i].tool_calls))
                 => AnswersTo(FirstCallNamed(messages[i].tool_calls,
                                             TransferOf(agent)).id) # {}


\* C33: when two turns of one owner that ran at the same time have both
\* written their profile update, the stored memory holds what the user told in
\* each of the two turns.
C33_NoLostUpdate ==
    (graph = "turns" /\ \A t \in Turns : requests[t].pc = "done")
        => \A t \in Turns :
              \E i \in 1..Len(store[TurnNamespace(requests[t].kind, user_id)]) :
                 Told[t] \in store[TurnNamespace(requests[t].kind, user_id)][i].value.data


\* C34: a chat turn that returned a response has added to the conversation's
\* transcript exactly the user's message and then the assistant's reply.
C34_OneExchangePerTurn ==
    (graph = "service" /\ returned.type = "response")
        => db_rows = <<[role |-> "human", content |-> messages[1].content],
                       [role |-> "ai", content |-> returned.message]>>


\* C35: the message create_new_conversation selects as the final response, in
\* the streaming loop or in the search through all_messages, is an assistant
\* message of the run with text that is not white space and with a name other
\* than supervisor, correction, researcher, enhancer and validator; the
\* returned response is that message's content.
C35_FinalIsNoInternalMessage ==
    graph = "conversation" =>
        /\ final_response # NoResponse =>
              /\ final_response.type = "ai"
              /\ Strip(final_response.content) # <<>>
              /\ final_response.name \notin KnownAgents
              /\ \E i \in 1..Len(messages) : messages[i] = final_response
        /\ returned.type = "response" => returned.response = final_response.content

C35_Witness ==
    /\ graph = "conversation" /\ returned.type = "response"
    /\ Last(messages).name = "supervisor" /\ Last(messages).content = <<"FINISH">>
    /\ final_response.name = "" /\ returned.response = <<"answer">>


\* C36: create_new_conversation has committed a conversation row exactly when
\* it has returned a response; the row then holds the returned response, and
\* after an exception no row is committed.
C36_RowIffResponse ==
    graph = "conversation" =>
        /\ db_rows # <<>> <=> returned.type = "response"
        /\ returned.type = "response"
              => db_rows = <<[role |-> "ai", content |-> returned.response]>>
        /\ returned.type = "error" => db_rows = <<>>


\* C37: a run of the process_message graph moves along START -> [search_web ->
\* search_wikipedia ->] call_model -> write_memory -> END only, each node does
\* its work once, on the step that leaves it, and the search nodes run in the
\* order web, wikipedia, before the model call, when the router chose search.
C37_AcyclicPipeline ==
    [][graph = "service" =>
         /\ node' # node =>
              CASE node = "START" ->
                     /\ node' = service_route_message(messages)
                     /\ node' \in {"search_web", "call_model"}
                     /\ context = <<>> /\ step_count = 0
                [] node = "search_web" ->
                     /\ node' = "search_wikipedia"
                     /\ context = <<>> /\ Len(context') = 1
                [] node = "search_wikipedia" ->
                     /\ node' = "call_model"
                     /\ Len(context) = 1 /\ Len(context') = 2
                     /\ step_count = 0
                [] node = "call_model" ->
                     /\ node' = "write_memory"
                     /\ step_count = 0 /\ step_count' = 1
                     /\ Len(messages') = Len(messages) + 1
                     /\ Len(context) = (IF service_route_message(<<messages[1]>>)
                                            = "search_web" THEN 2 ELSE 0)
                [] node = "write_memory" ->
                     /\ node' = END
                     /\ step_count = 1
                     /\ store'[MemoryKey(user_id)] # <<>>
                     /\ store'[MemoryKey(user_id)] # store[MemoryKey(user_id)]
                [] OTHER -> FALSE
         /\ node' = node =>
              /\ messages' = messages /\ context' = context
              /\ (~raised' => step_count' = step_count)
              /\ (node # END => store' = store)]_vars

C37_Witness ==
    /\ graph = "service" /\ node = END /\ ~raised
    /\ context = <<"web documents", "wikipedia documents">>
    /\ step_count = 1 /\ Len(messages) = 2 /\ Last(messages).type = "ai"
    /\ store[MemoryKey(user_id)] # <<>>


\* C38: when Redis holds conversations of the user and could be read, the
\* prompt conversational_agent builds carries the conversations of the five
\* greatest keys (all of them when there are fewer), greatest key first,
\* whether or not a profile is stored.
C38_RecentConversationsPassed ==
    (/\ graph = "agent" /\ step_count > 0
     /\ redis_conversations # {}
     /\ <<"conversations_read", 0>> \notin faults)
        => LET recent == system_msg.recent_conversations
               passed == {recent[i] : i \in 1..Len(recent)}
           IN  /\ passed \subseteq redis_conversations
               /\ Len(recent) = (IF Cardinality(redis_conversations) < 5
                                 THEN Cardinality(redis_conversations) ELSE 5)
               /\ \A i \in 1..(Len(recent) - 1) : recent[i] > recent[i + 1]
               /\ \A k \in redis_conversations \ passed :
                     \A i \in 1..Len(recent) : k < recent[i]

====
